---- MODULE Spec2Model ----
(***************************************************************************)
(* A model of the gocov coverage-data library: the counter merger          *)
(* (cmerge.go), the visitor that builds the coverage model and the driver  *)
(* that walks the pods of a coverage directory (reader.go).                *)
(***************************************************************************)
EXTENDS Integers, Sequences, FiniteSets, TLC

(***************************************************************************)
(* uint32 and uint64 values.  TLC's integers are 32-bit signed, so a       *)
(* uint32 is kept at its true width as two 16-bit limbs <<hi, lo>> and a   *)
(* uint64 as four limbs, most significant first.                           *)
(***************************************************************************)
LimbBase == 2^16

LimbMax == LimbBase - 1

U32(hi, lo) == <<hi, lo>>

Zero32 == U32(0, 0)

One32 == U32(0, 1)

\* math.MaxUint32
MaxUint32 == U32(LimbMax, LimbMax)

\* uint64(x) of a uint32 x
ToUint64(x) == <<0, 0, x[1], x[2]>>

\* uint32(x) of a uint64 x: the low 32 bits
ToUint32(x) == <<x[3], x[4]>>

\* d + s on uint64 (wraps at 2^64)
Add64(d, s) ==
    LET s4 == d[4] + s[4]
        s3 == d[3] + s[3] + (s4 \div LimbBase)
        s2 == d[2] + s[2] + (s3 \div LimbBase)
        s1 == d[1] + s[1] + (s2 \div LimbBase)
    IN  <<s1 % LimbBase, s2 % LimbBase, s3 % LimbBase, s4 % LimbBase>>

(***************************************************************************)
(* Counter modes and granularities (defs.go).                              *)
(***************************************************************************)
CtrModeInvalid == 0

CtrModeSet == 1

CtrModeCount == 2

CtrModeAtomic == 3

CtrModeRegOnly == 4

CtrModeTestMain == 5

CtrGranularityInvalid == 0

CtrGranularityPerBlock == 1

CtrGranularityPerFunc == 2

(***************************************************************************)
(* The merger (cmerge.go).  A merger value is a record                     *)
(* [cmode, cgran, overflow].                                               *)
(***************************************************************************)
\* the zero value &merger{}
NewMerger == [cmode |-> CtrModeInvalid, cgran |-> CtrGranularityInvalid, overflow |-> FALSE]

\* A wrapping add: what saturatingAdd would be without the overflow test.
saturatingAdd_wrap(dst, src) ==
    [result |-> ToUint32(Add64(ToUint64(dst), ToUint64(src))), overflow |-> FALSE]

saturatingAdd(dst, src) ==
    LET d == ToUint64(dst)
        s == ToUint64(src)
        sum == Add64(d, s)
    IN  IF ToUint64(ToUint32(sum)) # sum
        THEN [result |-> ToUint32(ToUint64(MaxUint32)), overflow |-> TRUE]
        ELSE [result |-> ToUint32(sum), overflow |-> FALSE]

SaturatingAdd(m, dst, src) ==
    LET r == saturatingAdd(dst, src)
    IN  [m |-> IF r.overflow THEN [m EXCEPT !.overflow = TRUE] ELSE m,
         result |-> r.result]

\* dst[i] |= 1 on a uint32: sets the low bit.
Or1(d) == U32(d[1], IF d[2] % 2 = 0 THEN d[2] + 1 ELSE d[2])

\* Set mode written as a bitwise OR of the old value.
SetModeMerge_or(d, s) == IF s # Zero32 THEN Or1(d) ELSE d

\* a set-mode loop body that stores nothing
SetModeMerge_keep(d, s) == d

\* a set-mode loop body that stores the count of src
SetModeMerge_count(d, s) == IF s # Zero32 THEN s ELSE d

\* the body of the set-mode loop: if src[i] != 0 { dst[i] = 1 }
SetModeMerge(d, s) == IF s # Zero32 THEN One32 ELSE d

\* the count-mode loop, for i := i; i < len(src); i++
RECURSIVE CountLoop(_, _, _, _)
CountLoop(m, dst, src, i) ==
    IF i > Len(src) THEN [m |-> m, dst |-> dst]
    ELSE LET r == SaturatingAdd(m, dst[i], src[i])
         IN  CountLoop(r.m, [dst EXCEPT ![i] = r.result], src, i + 1)

\* The length test lets a shorter src through.
SameLength_shortsrc(dst, src) == Len(src) <= Len(dst)

\* the guard of MergeCounters: len(src) != len(dst) is an error
SameLength(dst, src) == Len(src) = Len(dst)

\* The overflow flag is returned but left set.
ClearOverflow_keep(m) == m

\* ovf := m.overflow; m.overflow = false
ClearOverflow(m) == [m EXCEPT !.overflow = FALSE]

MergeCounters(m, dst, src) ==
    IF ~SameLength(dst, src)
    THEN [m |-> m, dst |-> dst, err |-> TRUE, ovf |-> FALSE]
    ELSE LET r == IF m.cmode = CtrModeSet
                  THEN [m |-> m,
                        dst |-> [i \in 1..Len(dst) |->
                                    IF i <= Len(src) THEN SetModeMerge(dst[i], src[i])
                                    ELSE dst[i]]]
                  ELSE CountLoop(m, dst, src, 1)
         IN  [m |-> ClearOverflow(r.m), dst |-> r.dst,
              err |-> FALSE, ovf |-> r.m.overflow]

SetModeAndGranularity(cm, cmode, cgran) ==
    IF cm.cmode # CtrModeInvalid /\ (cm.cmode # cmode \/ cm.cgran # cgran)
    THEN [cm |-> cm, err |-> TRUE]
    ELSE [cm |-> [cm EXCEPT !.cmode = cmode, !.cgran = cgran], err |-> FALSE]

ResetModeAndGranularity(m) == NewMerger

(***************************************************************************)
(* MatchSimplePattern.  Strings are sequences of one-character strings.    *)
(* The pattern is quoted, its trailing /... is made optional, every ...    *)
(* becomes .* and the result is matched as the regular expression ^re$.    *)
(***************************************************************************)
\* the characters regexp.QuoteMeta escapes
MetaChars == {"\\", ".", "+", "*", "?", "(", ")", "|", "[", "]", "{", "}", "^", "$"}

vendorChar == "NUL"

Contains(s, c) == \E i \in 1..Len(s) : s[i] = c

RECURSIVE QuoteMeta(_)
QuoteMeta(s) ==
    IF s = <<>> THEN <<>>
    ELSE (IF Head(s) \in MetaChars THEN <<"\\", Head(s)>> ELSE <<Head(s)>>)
         \o QuoteMeta(Tail(s))

HasSuffix(s, suffix) ==
    /\ Len(s) >= Len(suffix)
    /\ SubSeq(s, Len(s) - Len(suffix) + 1, Len(s)) = suffix

TrimSuffix(s, suffix) ==
    IF HasSuffix(s, suffix) THEN SubSeq(s, 1, Len(s) - Len(suffix)) ELSE s

HasPrefixAt(s, i, t) ==
    /\ i + Len(t) - 1 <= Len(s)
    /\ SubSeq(s, i, i + Len(t) - 1) = t

\* strings.ReplaceAll from position i on: leftmost matches, not overlapping
RECURSIVE ReplaceAllFrom(_, _, _, _)
ReplaceAllFrom(s, i, old, new) ==
    IF i > Len(s) THEN <<>>
    ELSE IF HasPrefixAt(s, i, old)
         THEN new \o ReplaceAllFrom(s, i + Len(old), old, new)
         ELSE <<s[i]>> \o ReplaceAllFrom(s, i + 1, old, new)

ReplaceAll(s, old, new) == ReplaceAllFrom(s, 1, old, new)

\* the quoted text \.\.\.
QuotedDots == <<"\\", ".", "\\", ".", "\\", ".">>

\* the quoted text /\.\.\.
QuotedSlashDots == <<"/">> \o QuotedDots

wild == <<".", "*">>

\* The regular expressions MatchSimplePattern builds are sequences of items:
\* a literal character, the dot (any character but a newline), each possibly
\* starred, and a group ( ... ) followed by ? .
Lit(c) == [kind |-> "lit", c |-> c, star |-> FALSE, body |-> <<>>]
Dot == [kind |-> "dot", c |-> "", star |-> FALSE, body |-> <<>>]
Opt(items) == [kind |-> "opt", c |-> "", star |-> FALSE, body |-> items]

\* position of the unescaped ) closing the group opened before position i
RECURSIVE GroupEnd(_, _)
GroupEnd(re, i) ==
    IF i > Len(re) THEN i
    ELSE IF re[i] = "\\" THEN GroupEnd(re, i + 2)
    ELSE IF re[i] = ")" THEN i
    ELSE GroupEnd(re, i + 1)

\* regexp.MustCompile: the items of re[i..j]
RECURSIVE Compile(_, _, _)
Compile(re, i, j) ==
    IF i > j THEN <<>>
    ELSE IF re[i] = "(" 
         THEN LET e == GroupEnd(re, i + 1)
                  inner == Compile(re, i + 1, e - 1)
              IN  IF e + 1 <= j /\ re[e + 1] = "?"
                  THEN <<Opt(inner)>> \o Compile(re, e + 2, j)
                  ELSE inner \o Compile(re, e + 1, j)
         ELSE LET atom == IF re[i] = "\\" THEN Lit(re[i + 1])
                          ELSE IF re[i] = "." THEN Dot
                          ELSE Lit(re[i])
                  n == IF re[i] = "\\" THEN i + 2 ELSE i + 1
              IN  IF n <= j /\ re[n] = "*"
                  THEN <<[atom EXCEPT !.star = TRUE]>> \o Compile(re, n + 1, j)
                  ELSE <<atom>> \o Compile(re, n, j)

\* a dot that would match the newline too
AtomMatches_newline(item, c) ==
    IF item.kind = "lit" THEN c = item.c ELSE TRUE

AtomMatches(item, c) ==
    IF item.kind = "lit" THEN c = item.c ELSE c # "\n"

\* the items match s[i..] up to its end
RECURSIVE MatchItems(_, _, _)
MatchItems(items, s, i) ==
    IF items = <<>> THEN i = Len(s) + 1
    ELSE LET item == Head(items)
             rest == Tail(items)
         IN  IF item.kind = "opt"
             THEN MatchItems(item.body \o rest, s, i) \/ MatchItems(rest, s, i)
             ELSE IF item.star
             THEN \/ MatchItems(rest, s, i)
                  \/ /\ i <= Len(s)
                     /\ AtomMatches(item, s[i])
                     /\ MatchItems(items, s, i + 1)
             ELSE /\ i <= Len(s)
                  /\ AtomMatches(item, s[i])
                  /\ MatchItems(rest, s, i + 1)

\* reg.MatchString for the expression ^re$
MatchString(re, s) == MatchItems(Compile(re, 1, Len(re)), s, 1)

MatchSimplePattern(pattern, toMatch) ==
    IF Contains(pattern, vendorChar) THEN FALSE
    ELSE LET quoted == QuoteMeta(pattern)
             re == IF HasSuffix(quoted, QuotedSlashDots)
                   THEN TrimSuffix(quoted, QuotedSlashDots)
                        \o <<"(">> \o QuotedSlashDots \o <<")", "?">>
                   ELSE quoted
         IN  MatchString(ReplaceAll(re, QuotedDots, wild), toMatch)

\* covDataReader.matchpkg over the reader's pattern list
matchpkg(patterns, path) ==
    IF Len(patterns) = 0 THEN TRUE
    ELSE \E k \in 1..Len(patterns) : MatchSimplePattern(patterns[k], path)

(***************************************************************************)
(* Meta-data files.  A meta-file reader mfr holds the header fields of the *)
(* file (MetaFileHash, CMode, CGranularity, Entries), the offset and       *)
(* length of each package payload, the size of the file, whether the file  *)
(* is memory-mapped (fileView) and the payloads pkgs.  A payload holds its *)
(* header (Length, PkgName, PkgPath, ModulePath, NumFuncs), the function   *)
(* offset table FuncOffsets and, by offset, the functions Funcs.           *)
(***************************************************************************)
CovMetaHeaderSize == 44

HexDigits == <<"0", "1", "2", "3", "4", "5", "6", "7",
               "8", "9", "a", "b", "c", "d", "e", "f">>

\* hex.EncodeToString
RECURSIVE EncodeToString(_)
EncodeToString(bytes) ==
    IF bytes = <<>> THEN <<>>
    ELSE <<HexDigits[(Head(bytes) \div 16) + 1], HexDigits[(Head(bytes) % 16) + 1]>>
         \o EncodeToString(Tail(bytes))

\* "ok", an error ("err"), or a slice expression out of range ("panic")
GetPackagePayload(mfr, pkIdx) ==
    IF pkIdx >= mfr.Entries THEN "err"
    ELSE LET off == mfr.pkgOffsets[pkIdx + 1]
             len == mfr.pkgLengths[pkIdx + 1]
         IN  IF mfr.fileView
             THEN IF off + len > mfr.size THEN "panic" ELSE "ok"
             ELSE IF len > 0 /\ off + len > mfr.size THEN "err" ELSE "ok"

NoDecoder == [Length |-> 0, PkgName |-> "", PkgPath |-> <<>>, ModulePath |-> "",
              NumFuncs |-> 0, FuncOffsets |-> <<>>, Funcs |-> <<>>, Strs |-> <<>>]

GetPackageDecoder(mfr, pkIdx) ==
    LET pp == GetPackagePayload(mfr, pkIdx)
    IN  [res |-> pp, pd |-> IF pp = "ok" THEN mfr.pkgs[pkIdx + 1] ELSE NoDecoder]

NoFunc == [Funcname |-> "", Srcfile |-> "", Units |-> <<>>]

\* SReader.Get: str.strs[idx], a run-time panic when idx is out of range
Get(strs, idx) ==
    IF idx < Len(strs) THEN [res |-> "ok", s |-> strs[idx + 1]]
    ELSE [res |-> "panic", s |-> ""]

\* pd.Funcs[foff] is the function record at offset foff: the indices of its
\* file and function names in the string table pd.Strs, and its units.
\* err: ReadFunc returned an error; panic: it did not return.
ReadFunc(pd, fidx) ==
    IF fidx >= pd.NumFuncs THEN [err |-> TRUE, panic |-> FALSE, fd |-> NoFunc]
    ELSE LET funcOffsetLocation == CovMetaHeaderSize + 4 * fidx
             foff == pd.FuncOffsets[fidx + 1]
         IN  IF foff < funcOffsetLocation \/ foff > pd.Length
             THEN [err |-> TRUE, panic |-> FALSE, fd |-> NoFunc]
             ELSE LET rec == pd.Funcs[foff]
                      file == Get(pd.Strs, rec.fileidx)
                      fname == Get(pd.Strs, rec.fnameidx)
                  IN  IF file.res = "ok" /\ fname.res = "ok"
                      THEN [err |-> FALSE, panic |-> FALSE,
                            fd |-> [Funcname |-> fname.s, Srcfile |-> file.s,
                                    Units |-> rec.Units]]
                      ELSE [err |-> "err" \in {file.res, fname.res},
                            panic |-> "panic" \in {file.res, fname.res},
                            fd |-> NoFunc]

(***************************************************************************)
(* covDataVisitor.  d is the visitor: its merger cm, the accumulators mm   *)
(* by <<pk, fcn>>, the function count pkm by package index, the hash of    *)
(* the pod under visit and the coverage model data, a map from pod hash to *)
(* PodData.  Maps are functions on their key sets.                         *)
(***************************************************************************)
MapPut(f, k, v) == [x \in (DOMAIN f) \cup {k} |-> IF x = k THEN v ELSE f[x]]

NewVisitor == [cm |-> NewMerger, mm |-> <<>>, pkm |-> <<>>,
               podHash |-> <<>>, data |-> <<>>]

BeginPod(d) == [d EXCEPT !.mm = <<>>]

\* BatchCounterAlloc.AllocateCounters: n fresh counters, all zero
AllocateCounters(n) == [i \in 1..n |-> Zero32]

\* the test of VisitFuncCounterData that lets a record through to the merge
InCatalog(d, data) ==
    /\ data.PkgIdx \in DOMAIN d.pkm
    /\ ~(data.FuncIdx > d.pkm[data.PkgIdx])

VisitFuncCounterData(d, data) ==
    IF ~InCatalog(d, data) THEN [d |-> d, err |-> FALSE]
    ELSE LET key == <<data.PkgIdx, data.FuncIdx>>
             val == IF key \in DOMAIN d.mm THEN d.mm[key] ELSE <<>>
             grown == IF Len(val) < Len(data.Counters)
                      THEN LET t == AllocateCounters(Len(data.Counters))
                           IN  [i \in 1..Len(t) |-> IF i <= Len(val) THEN val[i] ELSE t[i]]
                      ELSE val
             r == MergeCounters(d.cm, grown, data.Counters)
         IN  IF r.err THEN [d |-> d, err |-> TRUE]
             ELSE [d |-> [d EXCEPT !.cm = r.m, !.mm = MapPut(d.mm, key, r.dst)],
                   err |-> FALSE]

NewPackage(pkIdx, pd) ==
    [ID |-> pkIdx, Name |-> "", ImportPath |-> <<>>, ModulePath |-> "",
     NumFuncs |-> pd.NumFuncs, Funcs |-> <<>>]

\* the package loop of VisitMetaDataFile, from package pkIdx on
RECURSIVE MetaPackagesLoop(_, _, _)
MetaPackagesLoop(d, mfr, pkIdx) ==
    IF pkIdx >= mfr.Entries THEN [d |-> d, res |-> "ok"]
    ELSE LET g == GetPackageDecoder(mfr, pkIdx)
         IN  IF g.res # "ok" THEN [d |-> d, res |-> g.res]
             ELSE MetaPackagesLoop(
                    [d EXCEPT !.pkm = MapPut(d.pkm, pkIdx, g.pd.NumFuncs),
                              !.data[d.podHash].Packages =
                                  MapPut(@, pkIdx, NewPackage(pkIdx, g.pd))],
                    mfr, pkIdx + 1)

\* the pod record is entered in the model before the mode is compared
RegisterPod(d, mHash, podData) ==
    [d EXCEPT !.podHash = mHash, !.data = MapPut(d.data, mHash, podData)]

VisitMetaDataFile(d, mfr) ==
    LET newgran == mfr.CGranularity
        newmode == mfr.CMode
        mHash == EncodeToString(mfr.MetaFileHash)
        podData == [CounterGranularity |-> newgran, CounterMode |-> newmode,
                    Packages |-> <<>>]
        d1 == RegisterPod(d, mHash, podData)
        r == SetModeAndGranularity(d.cm, newmode, newgran)
    IN  IF r.err THEN [d |-> d1, res |-> "err"]
        ELSE MetaPackagesLoop([d1 EXCEPT !.cm = r.cm, !.pkm = <<>>], mfr, 0)

BeginPackage(d, pd, pkgIdx) ==
    IF pkgIdx \in DOMAIN d.data[d.podHash].Packages
    THEN [d EXCEPT !.data[d.podHash].Packages[pkgIdx] =
                      [@ EXCEPT !.Name = pd.PkgName,
                                !.ImportPath = pd.PkgPath,
                                !.ModulePath = pd.ModulePath]]
    ELSE d

\* a unit slot of a Func that was never filled
NilUnit == [StLine |-> 0, StCol |-> 0, EnLine |-> 0, EnCol |-> 0,
            NxStmts |-> 0, Parent |-> 0, Count |-> Zero32, nil |-> TRUE]

FuncUnit(u, count) ==
    [StLine |-> u.StLine, StCol |-> u.StCol, EnLine |-> u.EnLine, EnCol |-> u.EnCol,
     NxStmts |-> u.NxStmts, Parent |-> 0, Count |-> count, nil |-> FALSE]

\* "ok", or "panic" when counters[i] is read beyond a shorter accumulator
\* or the package has no record
VisitFunc(d, pkgIdx, fnIdx, fd) ==
    LET key == <<pkgIdx, fnIdx>>
        haveCounters == key \in DOMAIN d.mm
        counters == IF haveCounters THEN d.mm[key] ELSE <<>>
        filled == IF counters # <<>> /\ Len(counters) < Len(fd.Units)
                  THEN Len(counters) ELSE Len(fd.Units)
        fnData == [Name |-> fd.Funcname, SrcFile |-> fd.Srcfile,
                   Units |-> [i \in 1..Len(fd.Units) |->
                                IF i > filled THEN NilUnit
                                ELSE FuncUnit(fd.Units[i],
                                              IF counters # <<>> THEN counters[i]
                                              ELSE Zero32)]]
    IN  IF pkgIdx \notin DOMAIN d.data[d.podHash].Packages
        THEN [d |-> d, res |-> "panic"]
        ELSE [d |-> [d EXCEPT !.data[d.podHash].Packages[pkgIdx].Funcs =
                                  MapPut(@, fnIdx, fnData)],
              res |-> IF filled < Len(fd.Units) THEN "panic" ELSE "ok"]

(***************************************************************************)
(* collectPodsImpl.  Paths are sequences of one-character strings, ordered *)
(* as Go orders strings, byte by byte.                                     *)
(***************************************************************************)
\* the characters of the paths, in ascending byte order
Bytes == <<" ", ".", "/", "1", "2", "a", "b", "c", "d", "e", "m", "n", "o",
           "r", "s", "t", "u", "v", "x">>

ByteOf(c) == CHOOSE i \in 1..Len(Bytes) : Bytes[i] = c

\* s < t on strings
StringLess_reversed(s, t) ==
    \E k \in 1..Len(s) :
       /\ \A i \in 1..(k - 1) : i <= Len(t) /\ s[i] = t[i]
       /\ (k > Len(t) \/ ByteOf(t[k]) < ByteOf(s[k]))

RECURSIVE StringLess(_, _)
StringLess(s, t) ==
    IF t = <<>> THEN FALSE
    ELSE IF s = <<>> THEN TRUE
    ELSE IF Head(s) # Head(t) THEN ByteOf(Head(s)) < ByteOf(Head(t))
    ELSE StringLess(Tail(s), Tail(t))

metaFilePref == <<"c", "o", "v", "m", "e", "t", "a">>

counterFilePref == <<"c", "o", "v", "c", "o", "u", "n", "t", "e", "r", "s">>

HasPrefix(s, prefix) == Len(s) >= Len(prefix) /\ SubSeq(s, 1, Len(prefix)) = prefix

\* \S+ and \d+
IsNonSpace(s) == s # <<>> /\ \A i \in 1..Len(s) : s[i] # " "

IsDigits(s) == s # <<>> /\ \A i \in 1..Len(s) : s[i] \in {"1", "2"}

\* filepath.Base: the last element of the path, trailing slashes removed
RECURSIVE TrimSlashes(_)
TrimSlashes(path) ==
    IF path # <<>> /\ path[Len(path)] = "/"
    THEN TrimSlashes(SubSeq(path, 1, Len(path) - 1))
    ELSE path

Base(path) ==
    IF path = <<>> THEN <<".">>
    ELSE LET p == TrimSlashes(path)
             slashes == {i \in 1..Len(p) : p[i] = "/"}
             from == IF slashes = {} THEN 1
                     ELSE (CHOOSE i \in slashes : \A j \in slashes : j <= i) + 1
         IN  IF p = <<>> THEN <<"/">> ELSE SubSeq(p, from, Len(p))

NoMatch == <<"no match">>

\* metaRE.FindStringSubmatch(base)[1] for ^covmeta\.(\S+)$
MetaTag(base) ==
    LET prefix == metaFilePref \o <<".">>
        rest == SubSeq(base, Len(prefix) + 1, Len(base))
    IN  IF HasPrefix(base, prefix) /\ IsNonSpace(rest) THEN rest ELSE NoMatch

\* counterRE.FindStringSubmatch(base)[1] for ^covcounters\.(\S+)\.(\d+)\.(\d+)+$ :
\* the longest tag that leaves two groups of digits behind it
CounterTag(base) ==
    LET prefix == counterFilePref \o <<".">>
        rest == SubSeq(base, Len(prefix) + 1, Len(base))
        n == Len(rest)
        splits == {k \in 1..n :
                     /\ IsNonSpace(SubSeq(rest, 1, k))
                     /\ \E d \in (k + 2)..(n - 2) :
                           /\ rest[k + 1] = "."
                           /\ IsDigits(SubSeq(rest, k + 2, d))
                           /\ rest[d + 1] = "."
                           /\ IsDigits(SubSeq(rest, d + 2, n))}
    IN  IF HasPrefix(base, prefix) /\ splits # {}
        THEN SubSeq(rest, 1, CHOOSE k \in splits : \A j \in splits : j <= k)
        ELSE NoMatch

\* first loop: the path of the first meta file of each tag
FirstOf_last(S) == CHOOSE i \in S : \A j \in S : j <= i

FirstOf(S) == CHOOSE i \in S : \A j \in S : i <= j

MetaFiles(files) ==
    LET tags == {MetaTag(Base(files[i])) : i \in 1..Len(files)} \ {NoMatch}
    IN  [tag \in tags |->
            files[FirstOf({i \in 1..Len(files) : MetaTag(Base(files[i])) = tag})]]

\* second loop: a counter file goes to the pod of its tag
Attached_any(f, tag) == CounterTag(Base(f)) # NoMatch

Attached(f, tag) == CounterTag(Base(f)) = tag

\* the elements of the pod of tag, in list order
RECURSIVE Elements(_, _)
Elements(files, tag) ==
    IF files = <<>> THEN <<>>
    ELSE (IF Attached(Head(files), tag) THEN <<Head(files)>> ELSE <<>>)
         \o Elements(Tail(files), tag)

\* sort.Slice of paths by < : insertion into a sorted sequence
RECURSIVE InsertPath(_, _)
InsertPath(s, x) ==
    IF s = <<>> THEN <<x>>
    ELSE IF StringLess(x, Head(s)) THEN <<x>> \o s
    ELSE <<Head(s)>> \o InsertPath(Tail(s), x)

RECURSIVE SortPaths(_)
SortPaths(s) ==
    IF s = <<>> THEN <<>> ELSE InsertPath(SortPaths(Tail(s)), Head(s))

\* sort.Slice of pods by MetaFile
RECURSIVE InsertPod(_, _)
InsertPod(s, p) ==
    IF s = <<>> THEN <<p>>
    ELSE IF StringLess(p.MetaFile, Head(s).MetaFile) THEN <<p>> \o s
    ELSE <<Head(s)>> \o InsertPod(Tail(s), p)

RECURSIVE SortPods(_)
SortPods(s) ==
    IF s = <<>> THEN <<>> ELSE InsertPod(SortPods(Tail(s)), Head(s))

\* the elements of a set in some order (the order of a range over a map)
RECURSIVE SeqOfSet(_)
SeqOfSet(S) ==
    IF S = {} THEN <<>>
    ELSE LET x == CHOOSE y \in S : TRUE IN <<x>> \o SeqOfSet(S \ {x})

collectPodsImpl(files) ==
    LET mf == MetaFiles(files)
        podOf(tag) ==
            [MetaFile |-> mf[tag],
             CounterDataFiles |-> SortPaths(Elements(files, tag))]
    IN  SortPods(SeqOfSet({podOf(tag) : tag \in DOMAIN mf}))

(***************************************************************************)
(* DiffLines.  A CoverageData is its PodData map; unitMap is the set of    *)
(* the keys of the Go map.  The loops over the maps run in some order of   *)
(* their keys.                                                             *)
(***************************************************************************)
funit(u) == <<u.StLine, u.EnLine, u.StCol, u.EnCol, u.NxStmts>>

\* the units met by for _, f := range pa.Funcs { for _, u := range f.Units
RECURSIVE FuncsUnits(_, _)
FuncsUnits(funcs, keys) ==
    IF keys = <<>> THEN <<>>
    ELSE funcs[Head(keys)].Units \o FuncsUnits(funcs, Tail(keys))

\* the units met by for _, pa := range p.Packages
RECURSIVE PackagesUnits(_, _)
PackagesUnits(packages, keys) ==
    IF keys = <<>> THEN <<>>
    ELSE LET funcs == packages[Head(keys)].Funcs
         IN  FuncsUnits(funcs, SeqOfSet(DOMAIN funcs))
                \o PackagesUnits(packages, Tail(keys))

\* the units met by for _, p := range one.PodData
RECURSIVE PodsUnits(_, _)
PodsUnits(podData, keys) ==
    IF keys = <<>> THEN <<>>
    ELSE LET packages == podData[Head(keys)].Packages
         IN  PackagesUnits(packages, SeqOfSet(DOMAIN packages))
                \o PodsUnits(podData, Tail(keys))

\* the first loop: unitMap[funit{...}] = true
RECURSIVE MarkUnits(_, _)
MarkUnits(unitMap, units) ==
    IF units = <<>> THEN unitMap
    ELSE MarkUnits(unitMap \cup {funit(Head(units))}, Tail(units))

\* a second loop that does not enter the units it counts
RECURSIVE CountNew_repeats(_, _, _)
CountNew_repeats(unitMap, units, new) ==
    IF units = <<>> THEN new
    ELSE CountNew_repeats(unitMap, Tail(units),
                          IF funit(Head(units)) \in unitMap THEN new ELSE new + 1)

\* the second loop: if _, ok := unitMap[unit]; !ok { new += 1; unitMap[unit] = true }
RECURSIVE CountNew(_, _, _)
CountNew(unitMap, units, new) ==
    IF units = <<>> THEN new
    ELSE LET unit == funit(Head(units))
         IN  IF unit \in unitMap THEN CountNew(unitMap, Tail(units), new)
             ELSE CountNew(unitMap \cup {unit}, Tail(units), new + 1)

\* the value returned, and the two arguments as the call leaves them
DiffLines(one, two) ==
    LET unitMap == MarkUnits({}, PodsUnits(one, SeqOfSet(DOMAIN one)))
    IN  [new |-> CountNew(unitMap, PodsUnits(two, SeqOfSet(DOMAIN two)), 0),
         one |-> one,
         two |-> two]

(***************************************************************************)
(* CoverageData.Merge.  PodData, Package and Func values are reached       *)
(* through pointers: the heap h holds the objects by address (h.pods,      *)
(* h.pkgs, h.funcs) and the maps hold addresses.  unitMap maps a key to    *)
(* its mcount; ord is the order in which range unitMap yields the keys.    *)
(***************************************************************************)
\* unitMap[uKey] = &mcount{cur: u.Count} for the units of cur
RECURSIVE EnterCur(_, _)
EnterCur(unitMap, units) ==
    IF units = <<>> THEN unitMap
    ELSE EnterCur(MapPut(unitMap, funit(Head(units)),
                         [cur |-> Head(units).Count, new |-> Zero32]),
                  Tail(units))

\* the loop over the units of other
RECURSIVE EnterNew(_, _)
EnterNew(unitMap, units) ==
    IF units = <<>> THEN unitMap
    ELSE LET uKey == funit(Head(units))
         IN  EnterNew(IF uKey \in DOMAIN unitMap
                      THEN [unitMap EXCEPT ![uKey].new = Head(units).Count]
                      ELSE MapPut(unitMap, uKey,
                                  [cur |-> Zero32, new |-> Head(units).Count]),
                      Tail(units))

\* the keys of unitMap as ord yields them
RECURSIVE KeysInOrder(_, _)
KeysInOrder(keys, ord) ==
    IF ord = <<>> THEN <<>>
    ELSE (IF Head(ord) \in keys THEN <<Head(ord)>> ELSE <<>>)
         \o KeysInOrder(keys, Tail(ord))

\* a merge that leaves the counts of cur as they were
MergedCounts_kept(mode, gran, curCount, newCount) == curCount

\* m := &merger{}; m.SetModeAndGranularity(...); m.MergeCounters(curCount, newCount)
MergedCounts(mode, gran, curCount, newCount) ==
    MergeCounters(SetModeAndGranularity(NewMerger, mode, gran).cm,
                  curCount, newCount).dst

\* the units Merge stores in a function present on both sides
MergeUnits(curUnits, otherUnits, mode, gran, ord) ==
    LET unitMap == EnterNew(EnterCur(<<>>, curUnits), otherUnits)
        keys == KeysInOrder(DOMAIN unitMap, ord)
        curCount == MergedCounts(mode, gran,
                                 [i \in 1..Len(keys) |-> unitMap[keys[i]].cur],
                                 [i \in 1..Len(keys) |-> unitMap[keys[i]].new])
    IN  [i \in 1..Len(keys) |->
            [StLine |-> keys[i][1], StCol |-> keys[i][3],
             EnLine |-> keys[i][2], EnCol |-> keys[i][4],
             NxStmts |-> keys[i][5], Parent |-> 0,
             Count |-> curCount[i], nil |-> FALSE]]

\* cur.PodData[pName].Packages[packName].Funcs[fName] = f
AdoptFunc(h, curPkg, fName, f) ==
    [h EXCEPT !.pkgs[curPkg].Funcs = MapPut(@, fName, f)]

\* for fName, f := range pack.Funcs
RECURSIVE MergeFuncs(_, _, _, _, _, _, _)
MergeFuncs(h, curPkg, pack, names, mode, gran, ord) ==
    IF names = <<>> THEN h
    ELSE LET fName == Head(names)
             f == h.pkgs[pack].Funcs[fName]
             h1 == IF fName \notin DOMAIN h.pkgs[curPkg].Funcs
                   THEN AdoptFunc(h, curPkg, fName, f)
                   ELSE LET curFunc == h.pkgs[curPkg].Funcs[fName]
                        IN  [h EXCEPT !.funcs[curFunc].Units =
                                MergeUnits(h.funcs[curFunc].Units, h.funcs[f].Units,
                                           mode, gran, ord)]
         IN  MergeFuncs(h1, curPkg, pack, Tail(names), mode, gran, ord)

\* for packName, pack := range p.Packages
RECURSIVE MergePackages(_, _, _, _, _)
MergePackages(h, curPod, p, names, ord) ==
    IF names = <<>> THEN h
    ELSE LET packName == Head(names)
             pack == h.pods[p].Packages[packName]
             h1 == IF packName \notin DOMAIN h.pods[curPod].Packages
                   THEN [h EXCEPT !.pods[curPod].Packages = MapPut(@, packName, pack)]
                   ELSE MergeFuncs(h, h.pods[curPod].Packages[packName], pack,
                                   SeqOfSet(DOMAIN h.pkgs[pack].Funcs),
                                   h.pods[p].CounterMode, h.pods[p].CounterGranularity,
                                   ord)
         IN  MergePackages(h1, curPod, p, Tail(names), ord)

\* for pName, p := range other.PodData
RECURSIVE MergePods(_, _, _, _, _)
MergePods(h, cur, other, names, ord) ==
    IF names = <<>> THEN [h |-> h, cur |-> cur]
    ELSE LET pName == Head(names)
             p == other.PodData[pName]
         IN  IF pName \notin DOMAIN cur.PodData
             THEN MergePods(h, [cur EXCEPT !.PodData = MapPut(@, pName, p)],
                            other, Tail(names), ord)
             ELSE MergePods(MergePackages(h, cur.PodData[pName], p,
                                          SeqOfSet(DOMAIN h.pods[p].Packages), ord),
                            cur, other, Tail(names), ord)

\* cur.Merge(other): the heap and cur after the call
Merge(h, cur, other, ord) ==
    MergePods(h, cur, other, SeqOfSet(DOMAIN other.PodData), ord)

\* the CoverageData reached from cur, pointers followed
Deref(h, cur) ==
    [pName \in DOMAIN cur.PodData |->
        LET p == h.pods[cur.PodData[pName]]
        IN  [p EXCEPT !.Packages =
                [packName \in DOMAIN p.Packages |->
                    LET pack == h.pkgs[p.Packages[packName]]
                    IN  [pack EXCEPT !.Funcs =
                            [fName \in DOMAIN pack.Funcs |-> h.funcs[pack.Funcs[fName]]]]]]]

(***************************************************************************)
(* State.  cm is the merger; dst and src are the caller's counter vectors  *)
(* (MergeCounters writes dst in place); ret is the last call made on the   *)
(* merger, with its arguments, the merger as it was before the call and    *)
(* the values returned.                                                    *)
(***************************************************************************)
VARIABLES cm, dst, src, ret, nmerge

mergerVars == <<cm, dst, src, ret, nmerge>>

(***************************************************************************)
(* State of a ReadDir call.  vis is the visitor and pkgs the pattern list  *)
(* of the reader; pc is the position of Visit in the pod under visit, npod *)
(* the pods visited, mfr the meta-file reader of the pod, cdr the header   *)
(* of the counter file being read, ncf and nrec the counter files opened   *)
(* and the records read in the pod, pkIdx and fidx the package and the     *)
(* function the package phase has reached.  outcome is how Visit ended.    *)
(* stepFailed tells that some step of the visit has returned an error.         *)
(* last is the last call made on the visitor, with the visitor as it was   *)
(* before the call (for VisitFuncCounterData with the record, for          *)
(* VisitFunc with the package and function index); begun holds the package *)
(* indices of the pod for which BeginPackage was called.                   *)
(***************************************************************************)
VARIABLES vis, pkgs, pc, npod, mfr, cdr, ncf, nrec, pkIdx, fidx, outcome, last, begun,
          stepFailed

visitVars == <<vis, pkgs, pc, npod, mfr, cdr, ncf, nrec, pkIdx, fidx, outcome, last, begun,
               stepFailed>>

(***************************************************************************)
(* State of a collectPodsImpl call: the list of paths handed to it, the    *)
(* pod list it returns, and whether it has returned.                       *)
(***************************************************************************)
VARIABLES inFiles, podlist, collected

podsVars == <<inFiles, podlist, collected>>

(***************************************************************************)
(* State of a MatchSimplePattern call: its two arguments and its result    *)
(* (the empty sequence until it has returned, then <<result>>).            *)
(***************************************************************************)
VARIABLES pattern, toMatch, matched

matchVars == <<pattern, toMatch, matched>>

(***************************************************************************)
(* State of a visitor fed the counter records of one function: the         *)
(* visitor, the visitor before the latest record, the records in the order *)
(* they are read, how many were handed over, and whether                   *)
(* VisitFuncCounterData returned an error.                                 *)
(***************************************************************************)
VARIABLES visitor, before, recs, ningested, ingestErr

ingestVars == <<visitor, before, recs, ningested, ingestErr>>

(***************************************************************************)
(* State of a DiffLines call: its two arguments and what it returned (the  *)
(* empty sequence until it has returned).                                  *)
(***************************************************************************)
VARIABLES covOne, covTwo, diffed

diffVars == <<covOne, covTwo, diffed>>

(***************************************************************************)
(* State of a run of Merge calls: the heap of PodData, Package and Func    *)
(* objects; the CoverageData values (covs[1] is the receiver, the others   *)
(* are the arguments in the order they were built); for every argument     *)
(* passed so far what it held when it was first passed; and the latest     *)
(* call (the heap and the receiver before it, the argument and the order   *)
(* in which its unitMap was ranged over); and the number of calls.         *)
(***************************************************************************)
VARIABLES heap, covs, passed, lastMerge, ncalls

mergingVars == <<heap, covs, passed, lastMerge, ncalls>>

\* ReadFunc on its own: the package decoder rfPd, the function index rfIdx
\* asked of it, and rfOut, <<>> until ReadFunc has been called and then the
\* one-element sequence of its outcome.
VARIABLES rfPd, rfIdx, rfOut

readFuncVars == <<rfPd, rfIdx, rfOut>>

\* A meta-file reader on its own: the file pfFile (its size in bytes, the
\* header fields Version, TotalLength and Entries, the offset and length
\* tables, and whether the reader has a view of the file), the package index
\* pfIdx asked of it, pfHdr, <<>> until the header has been read and then the
\* one-element sequence of the outcome, and pfOut, the same for the payload.
VARIABLES pfFile, pfIdx, pfHdr, pfOut

payloadVars == <<pfFile, pfIdx, pfHdr, pfOut>>

\* NewCoverageMetaDataDecoder reading the header of a blob: hrBlob is the
\* length of the blob b of the slice reader and hrOff its cursor r.off; hrN
\* is the number of header bytes binary.Read has got so far, hrPc where the
\* header read is ("loop": asking the reader for the rest, "ok" and "err":
\* returned), and hrCalls the number of calls of reader.Read so far.
VARIABLES hrBlob, hrOff, hrN, hrPc, hrCalls

headerVars == <<hrBlob, hrOff, hrN, hrPc, hrCalls>>

\* Two mReaders over one file of fvSize bytes, given the same calls.  The
\* first has the file view: mOff is its r.off.  The second has none and uses
\* its bio.Reader: sPos is the position of the file f and sBuf the number of
\* bytes its bufio.Reader holds unread.  mOut and sOut are the outcomes of the
\* last call: the position a Seek returned (pos, <<>> for a Read), the bytes
\* a Read delivered, and out, which is "ok", "eof" (io.EOF), "short"
\* (io.ErrUnexpectedEOF), "panic" (a slice expression out of range) or
\* "fatal" (log.Fatalf).  fvOps counts the calls.
VARIABLES fvSize, mOff, mOut, sPos, sBuf, sOut, fvOps

viewVars == <<fvSize, mOff, mOut, sPos, sBuf, sOut, fvOps>>

\* Coverage.GetProfiles on its own: gpData is the PodData map of c.data, and
\* gpOut is <<>> until GetProfiles has been called and then the one-element
\* sequence of the slice it returned.
VARIABLES gpData, gpOut

profilesVars == <<gpData, gpOut>>

\* ReadFromBuffer and the caller's meta buffer: bfMeta is the bytes of the
\* string table of the package blob inside the buffer; bfData is <<>> until
\* ReadFromBuffer has returned and then the one-element sequence of the
\* strings of the returned model; bfNames is the bytes these strings had when
\* ReadFromBuffer returned, and bfWrites counts the caller's writes since.
\* A string is its length and either a view of the buffer from offset off
\* or bytes of its own.
VARIABLES bfMeta, bfData, bfNames, bfWrites

bufferVars == <<bfMeta, bfData, bfNames, bfWrites>>

\* Reading a set-mode pod again and again and merging the models read:
\* stVis is the visitor of the read under way and stRecs the number of
\* counter records it has been given; stDead says that VisitFunc has
\* panicked.  stAbove says that a record of the read under way held a count
\* above one; stSeen holds "above" once a model was returned from such a
\* read and "both" once a Merge met a unit counted one on both sides.
VARIABLES stVis, stRecs, stDead, stAbove, stSeen

setVars == <<stVis, stRecs, stDead, stAbove, stSeen>>

vars == <<mergerVars, visitVars, podsVars, matchVars, ingestVars, diffVars, mergingVars, readFuncVars, payloadVars, headerVars, viewVars, profilesVars, bufferVars, setVars>>

\* the variables outside each call
outsideMerger == <<visitVars, podsVars, matchVars, ingestVars, diffVars, mergingVars, readFuncVars, payloadVars, headerVars, viewVars, profilesVars, bufferVars, setVars>>

outsideVisit == <<mergerVars, podsVars, matchVars, ingestVars, diffVars, mergingVars, readFuncVars, payloadVars, headerVars, viewVars, profilesVars, bufferVars, setVars>>

outsidePods == <<mergerVars, visitVars, matchVars, ingestVars, diffVars, mergingVars, readFuncVars, payloadVars, headerVars, viewVars, profilesVars, bufferVars, setVars>>

outsideMatch == <<mergerVars, visitVars, podsVars, ingestVars, diffVars, mergingVars, readFuncVars, payloadVars, headerVars, viewVars, profilesVars, bufferVars, setVars>>

outsideIngest == <<mergerVars, visitVars, podsVars, matchVars, diffVars, mergingVars, readFuncVars, payloadVars, headerVars, viewVars, profilesVars, bufferVars, setVars>>

outsideDiff == <<mergerVars, visitVars, podsVars, matchVars, ingestVars, mergingVars, readFuncVars, payloadVars, headerVars, viewVars, profilesVars, bufferVars, setVars>>

outsideMerging == <<mergerVars, visitVars, podsVars, matchVars, ingestVars, diffVars, readFuncVars, payloadVars, headerVars, viewVars, profilesVars, bufferVars, setVars>>

outsideReadFunc == <<mergerVars, visitVars, podsVars, matchVars, ingestVars, diffVars, mergingVars, payloadVars, headerVars, viewVars, profilesVars, bufferVars, setVars>>

outsidePayload == <<mergerVars, visitVars, podsVars, matchVars, ingestVars, diffVars, mergingVars, readFuncVars, headerVars, viewVars, profilesVars, bufferVars, setVars>>

outsideHeader == <<mergerVars, visitVars, podsVars, matchVars, ingestVars, diffVars, mergingVars, readFuncVars, payloadVars, viewVars, profilesVars, bufferVars, setVars>>

outsideView == <<mergerVars, visitVars, podsVars, matchVars, ingestVars, diffVars, mergingVars, readFuncVars, payloadVars, headerVars, profilesVars, bufferVars, setVars>>

outsideProfiles == <<mergerVars, visitVars, podsVars, matchVars, ingestVars, diffVars, mergingVars, readFuncVars, payloadVars, headerVars, viewVars, bufferVars, setVars>>

outsideBuffer == <<mergerVars, visitVars, podsVars, matchVars, ingestVars, diffVars, mergingVars, readFuncVars, payloadVars, headerVars, viewVars, profilesVars, setVars>>

outsideSet == <<mergerVars, visitVars, podsVars, matchVars, ingestVars, diffVars, mergingVars, readFuncVars, payloadVars, headerVars, viewVars, profilesVars, bufferVars>>

\* outside the set-mode reads and the Merge calls on their models
outsideSetMerging == <<mergerVars, visitVars, podsVars, matchVars, ingestVars, diffVars, readFuncVars, payloadVars, headerVars, viewVars, profilesVars, bufferVars>>

\* no collectPodsImpl call is under way
PodsIdle ==
    /\ inFiles = <<>>
    /\ podlist = <<>>
    /\ collected = FALSE

\* no MatchSimplePattern call is under way
MatchIdle ==
    /\ pattern = <<>>
    /\ toMatch = <<>>
    /\ matched = <<>>

\* no visitor is being fed records
IngestIdle ==
    /\ visitor = NewVisitor
    /\ before = NewVisitor
    /\ recs = <<>>
    /\ ningested = 0
    /\ ingestErr = FALSE

\* no DiffLines call is under way
DiffIdle ==
    /\ covOne = <<>>
    /\ covTwo = <<>>
    /\ diffed = <<>>

NoHeap == [pods |-> <<>>, pkgs |-> <<>>, funcs |-> <<>>]

NoCoverage == [PodData |-> <<>>]

NoMerge == [op |-> "none", h |-> NoHeap, cur |-> NoCoverage, other |-> NoCoverage,
            ord |-> <<>>]

\* no Merge call has been made
MergingIdle ==
    /\ heap = NoHeap
    /\ covs = <<>>
    /\ passed = <<>>
    /\ lastMerge = NoMerge
    /\ ncalls = 0

\* no function has been asked of a package decoder
ReadFuncIdle ==
    /\ rfPd = NoDecoder
    /\ rfIdx = 0
    /\ rfOut = <<>>

\* no meta file has been given to a meta-file reader
PayloadIdle ==
    /\ pfFile = [size |-> 0, Version |-> 0, TotalLength |-> 0, Entries |-> 0,
                 pkgOffsets |-> <<>>, pkgLengths |-> <<>>, fileView |-> FALSE]
    /\ pfIdx = 0
    /\ pfHdr = <<>>
    /\ pfOut = <<>>

\* no package decoder is under construction
HeaderIdle ==
    /\ hrBlob = 0
    /\ hrOff = 0
    /\ hrN = 0
    /\ hrPc = "idle"
    /\ hrCalls = 0

\* no file has been opened by an mReader
ViewIdle ==
    /\ fvSize = 0
    /\ mOff = 0
    /\ mOut = [pos |-> <<>>, bytes |-> <<>>, out |-> "none"]
    /\ sPos = 0
    /\ sBuf = 0
    /\ sOut = [pos |-> <<>>, bytes |-> <<>>, out |-> "none"]
    /\ fvOps = 0

\* no Coverage has been asked for its profiles
ProfilesIdle ==
    /\ gpData = <<>>
    /\ gpOut = <<>>

\* no buffer has been given to ReadFromBuffer
BufferIdle ==
    /\ bfMeta = <<>>
    /\ bfData = <<>>
    /\ bfNames = <<>>
    /\ bfWrites = 0

\* no set-mode pod is being read
SetIdle ==
    /\ stVis = NewVisitor
    /\ stRecs = 0
    /\ stDead = FALSE
    /\ stAbove = FALSE
    /\ stSeen = {}

\* no meta file, no counter file, no visitor call
NoMetaFile == [size |-> 0, Entries |-> 0, MetaFileHash |-> <<>>,
               CMode |-> CtrModeInvalid, CGranularity |-> CtrGranularityInvalid,
               pkgOffsets |-> <<>>, pkgLengths |-> <<>>, pkgs |-> <<>>,
               fileView |-> FALSE]

NoCounterFile == [MetaHash |-> <<>>, valid |-> FALSE, nfuncs |-> 0]

FuncPayload(pk, fcn, counters) == [PkgIdx |-> pk, FuncIdx |-> fcn, Counters |-> counters]

NoPayload == FuncPayload(0, 0, <<>>)

NoVisitorCall == [op |-> "none", pre |-> NewVisitor, res |-> "ok", data |-> NoPayload]

\* no ReadDir call is under way
VisitIdle ==
    /\ vis = NewVisitor
    /\ pkgs = <<>>
    /\ pc = "idle"
    /\ npod = 0
    /\ mfr = NoMetaFile
    /\ cdr = NoCounterFile
    /\ ncf = 0
    /\ nrec = 0
    /\ pkIdx = 0
    /\ fidx = 0
    /\ outcome = "none"
    /\ last = NoVisitorCall
    /\ begun = {}
    /\ stepFailed = FALSE

NoCall == [op |-> "none", cmode |-> CtrModeInvalid, cgran |-> CtrGranularityInvalid,
           d |-> <<>>, s |-> <<>>, pre |-> NewMerger,
           err |-> FALSE, ovf |-> FALSE, val |-> Zero32]

\* a call cm.SetModeAndGranularity(cmode, cgran)
CallSetModeAndGranularity(cmode, cgran) ==
    LET r == SetModeAndGranularity(cm, cmode, cgran)
    IN  /\ cm' = r.cm
        /\ ret' = [NoCall EXCEPT !.op = "SetModeAndGranularity", !.cmode = cmode,
                                 !.cgran = cgran, !.pre = cm, !.err = r.err]

\* a call cm.SaturatingAdd(d, s) on two counter values
CallSaturatingAdd(d, s) ==
    LET r == SaturatingAdd(cm, d, s)
    IN  /\ cm' = r.m
        /\ ret' = [NoCall EXCEPT !.op = "SaturatingAdd", !.d = <<d>>, !.s = <<s>>,
                                 !.pre = cm,
                                 !.ovf = saturatingAdd(d, s).overflow,
                                 !.val = r.result]

\* a call cm.MergeCounters(d, s); the caller's dst is d, written in place
CallMergeCounters(d, s) ==
    LET r == MergeCounters(cm, d, s)
    IN  /\ cm' = r.m
        /\ dst' = r.dst
        /\ src' = s
        /\ ret' = [NoCall EXCEPT !.op = "MergeCounters", !.d = d, !.s = s,
                                 !.pre = cm,
                                 !.err = r.err, !.ovf = r.ovf]

\* a call cm.ResetModeAndGranularity()
CallResetModeAndGranularity ==
    /\ cm' = ResetModeAndGranularity(cm)
    /\ ret' = [NoCall EXCEPT !.op = "ResetModeAndGranularity", !.pre = cm]

(***************************************************************************)
(* Bounds and input sets.                                                  *)
(***************************************************************************)
\* longest counter vector handed to MergeCounters
MaxLen == 2

\* MergeCounters calls on one dst vector
MaxMerges == 1

\* longest counter vector in the call-sequence specification
MaxSeqLen == 1

Modes == {CtrModeInvalid, CtrModeSet, CtrModeCount, CtrModeAtomic,
          CtrModeRegOnly, CtrModeTestMain}

\* the modes of the call-sequence specification
SeqModes == {CtrModeInvalid, CtrModeSet, CtrModeCount}

Granularities == {CtrGranularityInvalid, CtrGranularityPerBlock, CtrGranularityPerFunc}

\* counter values: 0, 2, 2^32 - 3, 2^32 - 1
CounterVals == {Zero32, U32(0, 2), U32(LimbMax, LimbMax - 2), MaxUint32}

\* counter values of the call-sequence specification: 0, 1, 2^32 - 1
SeqVals == {Zero32, One32, MaxUint32}

VecsOf(S, n) == UNION {[1..k -> S] : k \in 0..n}

(***************************************************************************)
(* SpecCounters: one caller holding a dst and a src vector sets the mode   *)
(* and merges src into dst.                                                *)
(***************************************************************************)
InitCounters ==
    /\ cm = NewMerger
    /\ dst \in VecsOf(CounterVals, MaxLen)
    /\ src \in VecsOf(CounterVals, MaxLen)
    /\ ret = NoCall
    /\ nmerge = 0
    /\ VisitIdle
    /\ PodsIdle
    /\ MatchIdle
    /\ IngestIdle
    /\ DiffIdle
    /\ MergingIdle
    /\ ReadFuncIdle
    /\ PayloadIdle
    /\ HeaderIdle
    /\ ViewIdle
    /\ ProfilesIdle
    /\ BufferIdle
    /\ SetIdle

CountersSetMode ==
    /\ \E cmode \in Modes : CallSetModeAndGranularity(cmode, CtrGranularityPerBlock)
    /\ UNCHANGED <<dst, src, nmerge>>
    /\ UNCHANGED outsideMerger

CountersMerge ==
    /\ nmerge < MaxMerges
    /\ CallMergeCounters(dst, src)
    /\ nmerge' = nmerge + 1
    /\ UNCHANGED outsideMerger

NextCounters == CountersSetMode \/ CountersMerge

SpecCounters == InitCounters /\ [][NextCounters]_vars

(***************************************************************************)
(* SpecMerger: any sequence of calls on one merger.                        *)
(***************************************************************************)
InitMerger ==
    /\ cm = NewMerger
    /\ dst = <<>>
    /\ src = <<>>
    /\ ret = NoCall
    /\ nmerge = 0
    /\ VisitIdle
    /\ PodsIdle
    /\ MatchIdle
    /\ IngestIdle
    /\ DiffIdle
    /\ MergingIdle
    /\ ReadFuncIdle
    /\ PayloadIdle
    /\ HeaderIdle
    /\ ViewIdle
    /\ ProfilesIdle
    /\ BufferIdle
    /\ SetIdle

\* The vectors of this specification are the arguments of one MergeCounters
\* call: no vector is held between calls.
NoVectors == dst' = <<>> /\ src' = <<>> /\ UNCHANGED nmerge /\ UNCHANGED outsideMerger

MergerSetMode ==
    /\ \E cmode \in SeqModes, cgran \in Granularities :
          CallSetModeAndGranularity(cmode, cgran)
    /\ NoVectors

MergerSaturatingAdd ==
    /\ \E d \in SeqVals, s \in SeqVals : CallSaturatingAdd(d, s)
    /\ NoVectors

MergerMerge ==
    /\ \E d \in VecsOf(SeqVals, MaxSeqLen), s \in VecsOf(SeqVals, MaxSeqLen) :
          CallMergeCounters(d, s)
    /\ UNCHANGED nmerge
    /\ UNCHANGED outsideMerger

MergerReset ==
    /\ CallResetModeAndGranularity
    /\ NoVectors

NextMerger == MergerSetMode \/ MergerSaturatingAdd \/ MergerMerge \/ MergerReset

SpecMerger == InitMerger /\ [][NextMerger]_vars

(***************************************************************************)
(* Bounds and files of the ReadDir specifications.                         *)
(***************************************************************************)
\* pods in the directory
MaxPods == 2

\* counter files of one pod
MaxCounterFiles == 1

\* counter records read in one pod
MaxRecords == 2

(***************************************************************************)
(* ReadDir: covDataReader.Visit drives the visitor over the pods of the    *)
(* directory.  The files are read as Visit reaches them: each step that    *)
(* opens a file or reads a record draws what it finds from a set.          *)
(***************************************************************************)
\* Visit goes on at position p
Goto(p) == pc' = p /\ UNCHANGED <<outcome, stepFailed>>

\* Visit returns nil ("ok") or an error ("err"), or the call panics
Return(o) ==
    /\ pc' = "done"
    /\ outcome' = o
    /\ stepFailed' = (stepFailed \/ o = "err")

\* a step has returned an error that its caller does not look at: Visit
\* goes on at position p
Dropped(p) ==
    /\ pc' = p
    /\ stepFailed' = TRUE
    /\ UNCHANGED outcome

\* the visitor call op(data) was made on the visitor d and gave res
Called(op, d, res, data) ==
    last' = [op |-> op, pre |-> d, res |-> res, data |-> data]

\* what ReadDir returns when Visit has returned
ReadDir ==
    [nil |-> outcome # "ok",
     data |-> IF outcome = "ok" THEN vis.data ELSE <<>>,
     err |-> outcome = "err"]

\* collectPods reads the directory
VisitCollectPods ==
    /\ pc = "Visit"
    /\ \E failed \in BOOLEAN : IF failed THEN Return("err") ELSE Goto("pods")
    /\ UNCHANGED <<vis, pkgs, npod, mfr, cdr, ncf, nrec, pkIdx, fidx, last, begun>>
    /\ UNCHANGED outsideVisit

\* the pod list is exhausted
VisitReturn ==
    /\ pc = "pods"
    /\ Return("ok")
    /\ UNCHANGED <<vis, pkgs, npod, mfr, cdr, ncf, nrec, pkIdx, fidx, last, begun>>
    /\ UNCHANGED outsideVisit

\* visitPod on the next pod of the list, of at most limit pods
StartPod(limit) ==
    /\ pc = "pods"
    /\ npod < limit
    /\ vis' = BeginPod(vis)
    /\ Called("BeginPod", vis, "ok", NoPayload)
    /\ begun' = {}
    /\ ncf' = 0
    /\ nrec' = 0
    /\ cdr' = NoCounterFile
    /\ Goto("open")
    /\ UNCHANGED <<pkgs, npod, mfr, pkIdx, fidx>>
    /\ UNCHANGED outsideVisit

\* the meta file is opened and its header decoded
OpenMetaFile(files) ==
    /\ pc = "open"
    /\ \/ Return("err") /\ UNCHANGED mfr
       \/ \E f \in files : mfr' = f /\ Goto("meta")
    /\ UNCHANGED <<vis, pkgs, npod, cdr, ncf, nrec, pkIdx, fidx, last, begun>>
    /\ UNCHANGED outsideVisit

VisitMeta ==
    /\ pc = "meta"
    /\ LET r == VisitMetaDataFile(vis, mfr)
       IN  /\ vis' = r.d
           /\ Called("VisitMetaDataFile", vis, r.res, NoPayload)
           /\ IF r.res = "ok" THEN Goto("counters") ELSE Return(r.res)
    /\ UNCHANGED <<pkgs, npod, mfr, cdr, ncf, nrec, pkIdx, fidx, begun>>
    /\ UNCHANGED outsideVisit

\* NewCounterDataReader reads the header of the counter file; the reader is
\* given the file alone
NewCounterDataReader(cf) == [err |-> ~cf.valid, hdr |-> cf]

OpenCounterFile(files) ==
    /\ pc = "counters"
    /\ ncf < MaxCounterFiles
    /\ \E cf \in files :
          LET r == NewCounterDataReader(cf)
          IN  /\ cdr' = r.hdr
              /\ IF r.err THEN Return("err") ELSE Goto("records")
    /\ ncf' = ncf + 1
    /\ UNCHANGED <<vis, pkgs, npod, mfr, nrec, pkIdx, fidx, last, begun>>
    /\ UNCHANGED outsideVisit

\* the counter files of the pod are exhausted
EndCounterFiles ==
    /\ pc = "counters"
    /\ pkIdx' = 0
    /\ Goto("packages")
    /\ UNCHANGED <<vis, pkgs, npod, mfr, cdr, ncf, nrec, fidx, last, begun>>
    /\ UNCHANGED outsideVisit

\* NextFunc gives a record
ReadRecord(records) ==
    /\ pc = "records"
    /\ nrec < MaxRecords
    /\ \E data \in records :
          LET r == VisitFuncCounterData(vis, data)
          IN  /\ vis' = r.d
              /\ Called("VisitFuncCounterData", vis, IF r.err THEN "err" ELSE "ok", data)
              /\ IF r.err THEN Return("err") ELSE Goto("records")
    /\ nrec' = nrec + 1
    /\ cdr' = [cdr EXCEPT !.nfuncs = @ + 1]
    /\ UNCHANGED <<pkgs, npod, mfr, ncf, pkIdx, fidx, begun>>
    /\ UNCHANGED outsideVisit

\* NextFunc reports the end of the file, or fails
EndCounterFile ==
    /\ pc = "records"
    /\ \E failed \in BOOLEAN : IF failed THEN Return("err") ELSE Goto("counters")
    /\ UNCHANGED <<vis, pkgs, npod, mfr, cdr, ncf, nrec, pkIdx, fidx, last, begun>>
    /\ UNCHANGED outsideVisit

\* the package loop of visitPod with processPackage up to BeginPackage
NextPackage ==
    /\ pc = "packages"
    /\ pkIdx < mfr.Entries
    /\ LET g == GetPackageDecoder(mfr, pkIdx)
       IN  IF g.res # "ok"
           THEN Return(g.res) /\ UNCHANGED <<vis, pkIdx, fidx, last, begun>>
           ELSE IF ~matchpkg(pkgs, g.pd.PkgPath)
           THEN /\ pkIdx' = pkIdx + 1
                /\ Goto("packages")
                /\ UNCHANGED <<vis, fidx, last, begun>>
           ELSE /\ vis' = BeginPackage(vis, g.pd, pkIdx)
                /\ Called("BeginPackage", vis, "ok", NoPayload)
                /\ begun' = begun \cup {pkIdx}
                /\ fidx' = 0
                /\ Goto("funcs")
                /\ UNCHANGED pkIdx
    /\ UNCHANGED <<pkgs, npod, mfr, cdr, ncf, nrec>>
    /\ UNCHANGED outsideVisit

\* visitPod returns nil
EndPod ==
    /\ pc = "packages"
    /\ pkIdx >= mfr.Entries
    /\ npod' = npod + 1
    /\ Goto("pods")
    /\ UNCHANGED <<vis, pkgs, mfr, cdr, ncf, nrec, pkIdx, fidx, last, begun>>
    /\ UNCHANGED outsideVisit

\* the function loop of processPackage; visitPod drops the value
\* processPackage returns
NextFuncDesc ==
    /\ pc = "funcs"
    /\ LET pd == mfr.pkgs[pkIdx + 1]
           r == ReadFunc(pd, fidx)
           v == VisitFunc(vis, pkIdx, fidx, r.fd)
       IN  IF r.panic
           THEN /\ Return("panic")
                /\ UNCHANGED <<vis, pkIdx, fidx, last>>
           ELSE IF fidx >= pd.NumFuncs \/ r.err
           THEN /\ pkIdx' = pkIdx + 1
                /\ IF fidx >= pd.NumFuncs THEN Goto("packages") ELSE Dropped("packages")
                /\ UNCHANGED <<vis, fidx, last>>
           ELSE /\ vis' = v.d
                /\ Called("VisitFunc", vis, v.res, FuncPayload(pkIdx, fidx, <<>>))
                /\ IF v.res = "ok" THEN Goto("funcs") ELSE Return(v.res)
                /\ fidx' = fidx + 1
                /\ UNCHANGED pkIdx
    /\ UNCHANGED <<pkgs, npod, mfr, cdr, ncf, nrec, begun>>
    /\ UNCHANGED outsideVisit

\* two meta hashes, differing in the last byte
Hash1 == [i \in 1..16 |-> 17]

Hash2 == [i \in 1..16 |-> IF i = 16 THEN 171 ELSE 17]

Unit(line) == [StLine |-> line, StCol |-> 1, EnLine |-> line, EnCol |-> 9, NxStmts |-> 1]

\* a function of two units and a function of one unit
FuncTwoUnits == [fnameidx |-> 1, fileidx |-> 0, Units |-> <<Unit(1), Unit(2)>>]

FuncOneUnit == [fnameidx |-> 2, fileidx |-> 0, Units |-> <<Unit(3)>>]

\* the string table of the packages
StringTable == <<"a.go", "f", "g">>

\* package a: two functions
PayloadA ==
    [Length |-> 83, PkgName |-> "a", PkgPath |-> <<"a">>, ModulePath |-> "m",
     NumFuncs |-> 2, FuncOffsets |-> <<60, 74>>,
     Funcs |-> (60 :> FuncTwoUnits @@ 74 :> FuncOneUnit), Strs |-> StringTable]

\* package a/b: one function
PayloadAB ==
    [Length |-> 65, PkgName |-> "b", PkgPath |-> <<"a", "/", "b">>, ModulePath |-> "m",
     NumFuncs |-> 1, FuncOffsets |-> <<56>>,
     Funcs |-> (56 :> FuncOneUnit), Strs |-> StringTable]

\* package c: two functions, the offset of the second beyond the payload
PayloadC ==
    [Length |-> 74, PkgName |-> "c", PkgPath |-> <<"c">>, ModulePath |-> "m",
     NumFuncs |-> 2, FuncOffsets |-> <<60, 200>>,
     Funcs |-> (60 :> FuncTwoUnits), Strs |-> StringTable]

RECURSIVE TotalLength(_)
TotalLength(payloads) ==
    IF payloads = <<>> THEN 0 ELSE Head(payloads).Length + TotalLength(Tail(payloads))

\* the meta file holding the payloads one after the other from offset start,
\* its last missing bytes cut off
MetaFile(hash, mode, gran, payloads, start, missing, fileView) ==
    [size |-> start + TotalLength(payloads) - missing,
     Entries |-> Len(payloads),
     MetaFileHash |-> hash,
     CMode |-> mode,
     CGranularity |-> gran,
     pkgOffsets |-> [k \in 1..Len(payloads) |->
                        start + TotalLength(SubSeq(payloads, 1, k - 1))],
     pkgLengths |-> [k \in 1..Len(payloads) |-> payloads[k].Length],
     pkgs |-> payloads,
     fileView |-> fileView]

\* counter files: the meta hash of the header, whether the file is a valid
\* counter file, and the function records read from it so far
CounterFiles == [MetaHash : {Hash1, Hash2}, valid : BOOLEAN, nfuncs : {0}]

\* the patterns a/... , c and ...b
PatternADots == <<"a", "/", ".", ".", ".">>

PatternC == <<"c">>

PatternDotsB == <<".", ".", ".", "b">>

MergerIdle ==
    /\ cm = NewMerger
    /\ dst = <<>>
    /\ src = <<>>
    /\ ret = NoCall
    /\ nmerge = 0

\* ReadDir has made the visitor and the reader with the patterns
ReadDirStarts(patterns) ==
    /\ MergerIdle
    /\ PodsIdle
    /\ MatchIdle
    /\ IngestIdle
    /\ DiffIdle
    /\ vis = NewVisitor
    /\ pkgs = patterns
    /\ pc = "Visit"
    /\ npod = 0
    /\ mfr = NoMetaFile
    /\ cdr = NoCounterFile
    /\ ncf = 0
    /\ nrec = 0
    /\ pkIdx = 0
    /\ fidx = 0
    /\ outcome = "none"
    /\ last = NoVisitorCall
    /\ begun = {}
    /\ stepFailed = FALSE
    /\ MergingIdle
    /\ ReadFuncIdle
    /\ PayloadIdle
    /\ HeaderIdle
    /\ ViewIdle
    /\ ProfilesIdle
    /\ BufferIdle
    /\ SetIdle

(***************************************************************************)
(* SpecPod: ReadDir on a directory of one pod.                             *)
(***************************************************************************)
PodMetaFiles ==
    {MetaFile(Hash1, mode, CtrGranularityPerBlock, payloads, 128, 0, TRUE) :
        mode \in {CtrModeCount, CtrModeSet},
        payloads \in {<<PayloadA>>, <<PayloadA, PayloadAB>>, <<PayloadAB, PayloadC>>}}
    \cup
    {MetaFile(Hash1, CtrModeCount, CtrGranularityPerBlock, <<PayloadA, PayloadAB>>,
              128, 4, fileView) : fileView \in BOOLEAN}

PodPatterns == {<<>>, <<PatternADots>>, <<PatternC, PatternDotsB>>}

PodRecords ==
    {FuncPayload(k[1], k[2], counters) :
        k \in {<<0, 0>>, <<0, 1>>, <<0, 2>>, <<1, 0>>, <<2, 0>>},
        counters \in {<<One32>>, <<MaxUint32, One32>>}}

InitPod == \E patterns \in PodPatterns : ReadDirStarts(patterns)

PodStart == StartPod(1)

PodOpenMetaFile == OpenMetaFile(PodMetaFiles)

PodOpenCounterFile == OpenCounterFile(CounterFiles)

PodReadRecord == ReadRecord(PodRecords)

NextPod ==
    \/ VisitCollectPods
    \/ PodStart
    \/ PodOpenMetaFile
    \/ VisitMeta
    \/ PodOpenCounterFile
    \/ PodReadRecord
    \/ EndCounterFile
    \/ EndCounterFiles
    \/ NextPackage
    \/ NextFuncDesc
    \/ EndPod
    \/ VisitReturn

SpecPod == InitPod /\ [][NextPod]_vars

(***************************************************************************)
(* SpecVisit: ReadDir on a directory of several pods.                      *)
(***************************************************************************)
VisitMetaFiles ==
    {MetaFile(hash, mg[1], mg[2], <<PayloadAB>>, 128, 0, TRUE) :
        hash \in {Hash1, Hash2},
        mg \in {<<CtrModeCount, CtrGranularityPerBlock>>,
                <<CtrModeSet, CtrGranularityPerBlock>>,
                <<CtrModeCount, CtrGranularityPerFunc>>}}

VisitRecords == {FuncPayload(0, 0, <<One32>>)}

InitVisit == ReadDirStarts(<<>>)

VisitStartPod == StartPod(MaxPods)

VisitOpenMetaFile == OpenMetaFile(VisitMetaFiles)

VisitOpenCounterFile == OpenCounterFile(CounterFiles)

VisitReadRecord == ReadRecord(VisitRecords)

NextVisit ==
    \/ VisitCollectPods
    \/ VisitStartPod
    \/ VisitOpenMetaFile
    \/ VisitMeta
    \/ VisitOpenCounterFile
    \/ VisitReadRecord
    \/ EndCounterFile
    \/ EndCounterFiles
    \/ NextPackage
    \/ NextFuncDesc
    \/ EndPod
    \/ VisitReturn

SpecVisit == InitVisit /\ [][NextVisit]_vars

(***************************************************************************)
(* SpecPods: collectPodsImpl on a list of paths.                           *)
(***************************************************************************)
\* paths in the list
MaxFiles == 4

DirD == <<"d", "/">>

DirE == <<"e", "/">>

MetaPath(dir, tag) == dir \o metaFilePref \o <<".">> \o tag

CounterPath(dir, tag, pid, nanos) ==
    dir \o counterFilePref \o <<".">> \o tag \o <<".">> \o pid \o <<".">> \o nanos

\* meta files of the tags a (in two directories) and b, two counter files
\* of the tag a, a counter file of the tag c, and a counter file name
\* without its time stamp
Paths ==
    {MetaPath(DirD, <<"a">>), MetaPath(DirE, <<"a">>), MetaPath(DirD, <<"b">>),
     CounterPath(DirD, <<"a">>, <<"1">>, <<"2">>),
     CounterPath(DirD, <<"a">>, <<"2">>, <<"1">>),
     CounterPath(DirD, <<"c">>, <<"1">>, <<"1">>),
     DirD \o counterFilePref \o <<".", "a", ".", "1">>}

InitPods ==
    /\ MergerIdle
    /\ VisitIdle
    /\ inFiles \in UNION {[1..n -> Paths] : n \in 0..MaxFiles}
    /\ podlist = <<>>
    /\ collected = FALSE
    /\ MatchIdle
    /\ IngestIdle
    /\ DiffIdle
    /\ MergingIdle
    /\ ReadFuncIdle
    /\ PayloadIdle
    /\ HeaderIdle
    /\ ViewIdle
    /\ ProfilesIdle
    /\ BufferIdle
    /\ SetIdle

CollectPods ==
    /\ ~collected
    /\ podlist' = collectPodsImpl(inFiles)
    /\ collected' = TRUE
    /\ UNCHANGED inFiles
    /\ UNCHANGED outsidePods

NextPods == CollectPods

SpecPods == InitPods /\ [][NextPods]_vars

(***************************************************************************)
(* SpecMatch: MatchSimplePattern on a pattern and a path.                  *)
(***************************************************************************)
\* characters of a pattern's prefix
MaxPrefixLen == 1

\* characters of a path
MaxPathLen == 3

StringsOver(chars, n) == UNION {[1..k -> chars] : k \in 0..n}

Ellipsis == <<".", ".", ".">>

Foo == <<"f", "o", "o">>

\* prefixes with a plain character, a regular expression metacharacter and
\* the vendor character
Prefixes == StringsOver({"a", "+", vendorChar}, MaxPrefixLen)

\* P/... for every prefix, .../foo, .../a and the bare wildcard
Patterns ==
    {p \o <<"/">> \o Ellipsis : p \in Prefixes}
        \cup {Ellipsis \o <<"/">> \o Foo, Ellipsis \o <<"/", "a">>, Ellipsis}

ToMatchStrings ==
    StringsOver({"a", "+", "/", "\n"}, MaxPathLen)
        \cup {Foo, <<"x", "/">> \o Foo, <<"/">> \o Foo}

InitMatch ==
    /\ MergerIdle
    /\ VisitIdle
    /\ PodsIdle
    /\ IngestIdle
    /\ DiffIdle
    /\ pattern \in Patterns
    /\ toMatch \in ToMatchStrings
    /\ matched = <<>>
    /\ MergingIdle
    /\ ReadFuncIdle
    /\ PayloadIdle
    /\ HeaderIdle
    /\ ViewIdle
    /\ ProfilesIdle
    /\ BufferIdle
    /\ SetIdle

Match ==
    /\ matched = <<>>
    /\ matched' = <<MatchSimplePattern(pattern, toMatch)>>
    /\ UNCHANGED <<pattern, toMatch>>
    /\ UNCHANGED outsideMatch

NextMatch == Match

SpecMatch == InitMatch /\ [][NextMatch]_vars

(***************************************************************************)
(* SpecIngest: the counter records of one function handed to               *)
(* VisitFuncCounterData one after the other, as visitPod does for the      *)
(* counter files of a pod.                                                 *)
(***************************************************************************)
\* records handed over
MaxIngest == 2

\* the visitor after BeginPod and VisitMetaDataFile of a meta file of the
\* mode
StartVisitor(mode) ==
    VisitMetaDataFile(BeginPod(NewVisitor),
                      MetaFile(Hash1, mode, CtrGranularityPerBlock, <<PayloadA>>,
                               128, 0, TRUE)).d

\* counter vectors of the records: those of one counter, an all-zero one
\* and two mixed ones of two counters
IngestCounters ==
    {<<v>> : v \in {Zero32, One32, MaxUint32}}
        \cup {<<Zero32, Zero32>>, <<MaxUint32, One32>>, <<One32, MaxUint32>>}

InitIngest ==
    /\ MergerIdle
    /\ VisitIdle
    /\ PodsIdle
    /\ MatchIdle
    /\ \E mode \in {CtrModeSet, CtrModeCount} : visitor = StartVisitor(mode)
    /\ before = visitor
    /\ recs \in UNION {[1..n -> IngestCounters] : n \in 0..MaxIngest}
    /\ ningested = 0
    /\ ingestErr = FALSE
    /\ DiffIdle
    /\ MergingIdle
    /\ ReadFuncIdle
    /\ PayloadIdle
    /\ HeaderIdle
    /\ ViewIdle
    /\ ProfilesIdle
    /\ BufferIdle
    /\ SetIdle

\* the next record of function 0 of package 0 is handed over; an error ends
\* the visit
Ingest ==
    /\ ~ingestErr
    /\ ningested < Len(recs)
    /\ LET r == VisitFuncCounterData(visitor, FuncPayload(0, 0, recs[ningested + 1]))
       IN  /\ visitor' = r.d
           /\ ingestErr' = r.err
    /\ before' = visitor
    /\ ningested' = ningested + 1
    /\ UNCHANGED recs
    /\ UNCHANGED outsideIngest

NextIngest == Ingest

SpecIngest == InitIngest /\ [][NextIngest]_vars

(***************************************************************************)
(* SpecDiff: DiffLines on two CoverageData.                                *)
(***************************************************************************)
\* units of a function
MaxUnits == 1

\* line 1 not covered and covered, and the same lines holding two
\* statements
DiffUnits ==
    {FuncUnit(Unit(1), Zero32), FuncUnit(Unit(1), One32),
     FuncUnit([Unit(1) EXCEPT !.NxStmts = 2], One32)}

\* the pod of the hash holding the one package, which holds the one function
PodOf(pkgIdx, fnIdx, units) ==
    [CounterGranularity |-> CtrGranularityPerBlock, CounterMode |-> CtrModeCount,
     Packages |->
        (pkgIdx :> [ID |-> pkgIdx, Name |-> "a", ImportPath |-> <<"a">>,
                    ModulePath |-> "m", NumFuncs |-> fnIdx + 1,
                    Funcs |-> (fnIdx :> [Name |-> "f", SrcFile |-> "a.go",
                                         Units |-> units])])]

\* function 0 of package 0 of the pod of Hash1, function 1 of package 1 of
\* the pod of Hash2
DiffPods ==
    {<<EncodeToString(Hash1), 0, 0>>, <<EncodeToString(Hash2), 1, 1>>}

\* PodData maps of some of these pods
CoverageDatas ==
    UNION {[{s[1] : s \in S} ->
               UNION {{PodOf(s[2], s[3], units) :
                          units \in VecsOf(DiffUnits, MaxUnits)} : s \in S}]
             : S \in SUBSET DiffPods}

\* each pod of the map holds the package and the function of its hash
WellKeyed(podData) ==
    \A s \in DiffPods :
        s[1] \in DOMAIN podData => DOMAIN podData[s[1]].Packages = {s[2]}

InitDiff ==
    /\ MergerIdle
    /\ VisitIdle
    /\ PodsIdle
    /\ MatchIdle
    /\ IngestIdle
    /\ covOne \in {c \in CoverageDatas : WellKeyed(c)}
    /\ covTwo \in {c \in CoverageDatas : WellKeyed(c)}
    /\ diffed = <<>>
    /\ MergingIdle
    /\ ReadFuncIdle
    /\ PayloadIdle
    /\ HeaderIdle
    /\ ViewIdle
    /\ ProfilesIdle
    /\ BufferIdle
    /\ SetIdle

Diff ==
    /\ diffed = <<>>
    /\ LET r == DiffLines(covOne, covTwo)
       IN  /\ diffed' = <<r.new>>
           /\ covOne' = r.one
           /\ covTwo' = r.two
    /\ UNCHANGED outsideDiff

NextDiff == Diff

SpecDiff == InitDiff /\ [][NextDiff]_vars

(***************************************************************************)
(* SpecReadFunc: ReadFunc on a package decoder whose one function record   *)
(* names its function and its file by any index up to MaxIdx, over string  *)
(* tables of every size up to that of StringTable.                         *)
(***************************************************************************)
MaxIdx == 3

\* offsets of the function record: in range, inside the header, past the end
ReadFuncOffsets == {60, 40, 200}

ReadFuncDecoders ==
    { [Length |-> 100, PkgName |-> "a", PkgPath |-> <<"a">>, ModulePath |-> "m",
       NumFuncs |-> 1, FuncOffsets |-> <<off>>,
       Funcs |-> (off :> [fnameidx |-> fn, fileidx |-> fl, Units |-> <<Unit(1)>>]),
       Strs |-> SubSeq(StringTable, 1, n)] :
      off \in ReadFuncOffsets, fn \in 0..MaxIdx, fl \in 0..MaxIdx,
      n \in 0..Len(StringTable) }

InitReadFunc ==
    /\ rfPd \in ReadFuncDecoders
    /\ rfIdx \in 0..1
    /\ rfOut = <<>>
    /\ MergerIdle
    /\ VisitIdle
    /\ PodsIdle
    /\ MatchIdle
    /\ IngestIdle
    /\ DiffIdle
    /\ MergingIdle
    /\ PayloadIdle
    /\ HeaderIdle
    /\ ViewIdle
    /\ ProfilesIdle
    /\ BufferIdle
    /\ SetIdle

ReadFuncCall ==
    /\ rfOut = <<>>
    /\ rfOut' = <<ReadFunc(rfPd, rfIdx)>>
    /\ UNCHANGED <<rfPd, rfIdx>>
    /\ UNCHANGED outsideReadFunc

NextReadFunc == ReadFuncCall

SpecReadFunc == InitReadFunc /\ [][NextReadFunc]_vars

(***************************************************************************)
(* SpecPayload: a meta-file reader is made over a file of one package and  *)
(* asked for the payload of a package.  The header and the tables of a     *)
(* file of one package with an empty string table end at PayloadStart; the *)
(* file ends, and the header says it ends, up to MaxSize bytes later; the  *)
(* package is said to start and to be up to MaxSize bytes long.            *)
(***************************************************************************)
MaxSize == 3

MetaFileVersion == 1

\* the 56 bytes of the file header, one offset, one length, and the one
\* byte of an empty string table
PayloadStart == 56 + 8 + 8 + 1

\* the byte of the file at offset p
ByteAt(p) == p % 256

PayloadFiles ==
    { [size |-> PayloadStart + size, Version |-> version,
       TotalLength |-> PayloadStart + total, Entries |-> 1,
       pkgOffsets |-> <<PayloadStart + off>>, pkgLengths |-> <<len>>,
       fileView |-> fileView] :
      size \in 0..MaxSize, total \in 0..MaxSize, off \in 0..MaxSize,
      len \in 0..MaxSize, version \in {MetaFileVersion, MetaFileVersion + 1},
      fileView \in BOOLEAN }

\* readFileHeader on a file that holds its header and tables: the version
\* and the two tables are vetted
readFileHeader(file) ==
    IF file.Version > MetaFileVersion THEN "err"
    ELSE IF \E i \in 1..file.Entries : file.pkgOffsets[i] > file.TotalLength THEN "err"
    ELSE IF \E i \in 1..file.Entries : file.pkgLengths[i] > file.TotalLength THEN "err"
    ELSE "ok"

\* the bytes GetPackagePayload hands out when it returns
PayloadBytes(file, i) ==
    [k \in 1..file.pkgLengths[i + 1] |-> ByteAt(file.pkgOffsets[i + 1] + k - 1)]

InitPayload ==
    /\ pfFile \in PayloadFiles
    /\ pfIdx \in 0..1
    /\ pfHdr = <<>>
    /\ pfOut = <<>>
    /\ MergerIdle
    /\ VisitIdle
    /\ PodsIdle
    /\ MatchIdle
    /\ IngestIdle
    /\ DiffIdle
    /\ MergingIdle
    /\ ReadFuncIdle
    /\ HeaderIdle
    /\ ViewIdle
    /\ ProfilesIdle
    /\ BufferIdle
    /\ SetIdle

NewCoverageMetaFileReader ==
    /\ pfHdr = <<>>
    /\ pfHdr' = <<readFileHeader(pfFile)>>
    /\ UNCHANGED <<pfFile, pfIdx, pfOut>>
    /\ UNCHANGED outsidePayload

PackagePayload ==
    /\ pfHdr = <<"ok">>
    /\ pfOut = <<>>
    /\ LET res == GetPackagePayload(pfFile, pfIdx)
       IN  pfOut' = <<[res |-> res,
                       pp |-> IF res = "ok" THEN PayloadBytes(pfFile, pfIdx) ELSE <<>>]>>
    /\ UNCHANGED <<pfFile, pfIdx, pfHdr>>
    /\ UNCHANGED outsidePayload

NextPayload == NewCoverageMetaFileReader \/ PackagePayload

SpecPayload == InitPayload /\ [][NextPayload]_vars

(***************************************************************************)
(* SpecHeader: readHeader of a package decoder over blobs of up to MaxBlob *)
(* bytes.  binary.Read fills a buffer of the size of the header with       *)
(* io.ReadFull, which calls Read of the slice reader for the bytes still   *)
(* missing while it has fewer than it needs and Read has returned no       *)
(* error.  Read is followed for MaxCalls calls.                            *)
(***************************************************************************)
MaxBlob == 45

MaxCalls == 3

Min(a, b) == IF a < b THEN a ELSE b

\* reader.Read into a buffer of amt bytes: the bytes copied, the new cursor
\* and the error returned, which is always nil
Read(blob, off, amt) ==
    LET toread == blob - off
        got == Min(toread, amt)
    IN  [n |-> got, off |-> off + got, err |-> FALSE]

InitHeader ==
    /\ hrBlob \in 0..MaxBlob
    /\ hrOff = 0
    /\ hrN = 0
    /\ hrPc = "loop"
    /\ hrCalls = 0
    /\ MergerIdle
    /\ VisitIdle
    /\ PodsIdle
    /\ MatchIdle
    /\ IngestIdle
    /\ DiffIdle
    /\ MergingIdle
    /\ ReadFuncIdle
    /\ PayloadIdle
    /\ ViewIdle
    /\ ProfilesIdle
    /\ BufferIdle
    /\ SetIdle

\* one turn of the loop of io.ReadFull: for n < min && err == nil
ReadMore ==
    /\ hrPc = "loop"
    /\ hrN < CovMetaHeaderSize
    /\ hrCalls < MaxCalls
    /\ LET r == Read(hrBlob, hrOff, CovMetaHeaderSize - hrN)
       IN  /\ hrOff' = r.off
           /\ hrN' = hrN + r.n
           /\ hrPc' = IF r.err THEN "err" ELSE "loop"
    /\ hrCalls' = hrCalls + 1
    /\ UNCHANGED hrBlob
    /\ UNCHANGED outsideHeader

\* the loop is left with the header filled
HeaderRead ==
    /\ hrPc = "loop"
    /\ hrN >= CovMetaHeaderSize
    /\ hrPc' = "ok"
    /\ UNCHANGED <<hrBlob, hrOff, hrN, hrCalls>>
    /\ UNCHANGED outsideHeader

NextHeader == ReadMore \/ HeaderRead

SpecHeader == InitHeader /\ [][NextHeader]_vars

(***************************************************************************)
(* SpecView: up to MaxOps calls of Seek and Read on a file of up to        *)
(* MaxFile bytes, which is shorter than the buffer of a bufio.Reader: the  *)
(* first read of the buffered reader takes in the rest of the file.  The   *)
(* Seeks are those to positions at or after the start of the file.         *)
(***************************************************************************)
MaxFile == 2

MaxOps == 3

SeekStart == 0

SeekCurrent == 1

SeekEnd == 2

\* the lengths of the buffers given to Read
ReadLens == 0..2

Max(a, b) == IF a > b THEN a ELSE b

\* bytes [from, from + n) of the file
FileBytes(from, n) == [k \in 1..n |-> ByteAt(from + k - 1)]

\* mReader.Seek with a file view
SeekView(off, size, offset, whence) ==
    IF whence = SeekStart THEN [off |-> offset, pos |-> offset]
    ELSE IF whence = SeekCurrent THEN [off |-> off, pos |-> off]
    ELSE [off |-> size + offset, pos |-> size + offset]

\* mReader.Read with a file view, into a buffer of len bytes
ReadView(off, size, len) ==
    IF off < 0 \/ off > size
    THEN [off |-> off, bytes |-> <<>>, out |-> "panic"]
    ELSE LET toread == size - off
             amt == Min(len, toread)
         IN  IF toread < 1 THEN [off |-> off, bytes |-> <<>>, out |-> "eof"]
             ELSE [off |-> off + amt, bytes |-> FileBytes(off, amt), out |-> "ok"]

\* Reader.MustSeek: the offset is taken from the unread end of the buffer,
\* the file is moved, the buffer dropped
MustSeek(pos, buf, size, offset, whence) ==
    LET target == IF whence = SeekStart THEN offset
                  ELSE IF whence = SeekCurrent THEN pos + (offset - buf)
                  ELSE size + offset
    IN  IF target < 0 THEN [pos |-> pos, buf |-> buf, ret |-> <<>>, out |-> "fatal"]
        ELSE [pos |-> target, buf |-> 0, ret |-> <<target>>, out |-> "ok"]

\* io.ReadFull(r.rdr, p) with len(p) = len
ReadStream(pos, buf, size, len) ==
    LET at == pos - buf
        n == IF at > size THEN 0 ELSE Min(len, size - at)
        filled == Max(pos, size)
    IN  IF len = 0 THEN [pos |-> pos, buf |-> buf, bytes |-> <<>>, out |-> "ok"]
        ELSE [pos |-> filled, buf |-> filled - (at + n), bytes |-> FileBytes(at, n),
              out |-> IF n = len THEN "ok" ELSE IF n = 0 THEN "eof" ELSE "short"]

InitView ==
    /\ fvSize \in 0..MaxFile
    /\ mOff = 0
    /\ mOut = [pos |-> <<>>, bytes |-> <<>>, out |-> "none"]
    /\ sPos = 0
    /\ sBuf = 0
    /\ sOut = [pos |-> <<>>, bytes |-> <<>>, out |-> "none"]
    /\ fvOps = 0
    /\ MergerIdle
    /\ VisitIdle
    /\ PodsIdle
    /\ MatchIdle
    /\ IngestIdle
    /\ DiffIdle
    /\ MergingIdle
    /\ ReadFuncIdle
    /\ PayloadIdle
    /\ HeaderIdle
    /\ ProfilesIdle
    /\ BufferIdle
    /\ SetIdle

\* both readers are still running
Running ==
    /\ fvOps < MaxOps
    /\ mOut.out # "panic"

\* a Seek to a position the file accepts (none before its start)
Seek ==
    /\ Running
    /\ \E offset \in (0 - 1)..MaxFile, whence \in {SeekStart, SeekCurrent, SeekEnd} :
          LET v == SeekView(mOff, fvSize, offset, whence)
              s == MustSeek(sPos, sBuf, fvSize, offset, whence)
          IN  /\ s.out = "ok"
              /\ mOff' = v.off
              /\ mOut' = [pos |-> <<v.pos>>, bytes |-> <<>>, out |-> "ok"]
              /\ sPos' = s.pos
              /\ sBuf' = s.buf
              /\ sOut' = [pos |-> s.ret, bytes |-> <<>>, out |-> s.out]
    /\ fvOps' = fvOps + 1
    /\ UNCHANGED fvSize
    /\ UNCHANGED outsideView

ReadBoth ==
    /\ Running
    /\ \E len \in ReadLens :
          LET v == ReadView(mOff, fvSize, len)
              s == ReadStream(sPos, sBuf, fvSize, len)
          IN  /\ mOff' = v.off
              /\ mOut' = [pos |-> <<>>, bytes |-> v.bytes, out |-> v.out]
              /\ sPos' = s.pos
              /\ sBuf' = s.buf
              /\ sOut' = [pos |-> <<>>, bytes |-> s.bytes, out |-> s.out]
    /\ fvOps' = fvOps + 1
    /\ UNCHANGED fvSize
    /\ UNCHANGED outsideView

NextView == Seek \/ ReadBoth

SpecView == InitView /\ [][NextView]_vars

(***************************************************************************)
(* GetProfiles.  The three nested loops over the pods, the packages and    *)
(* the functions are a walk: the sequence of the functions met, each with  *)
(* the pod it is in.  fileProfiles is the map from file name to Profile.   *)
(***************************************************************************)
\* counterMode.String
ModeString(cmode) ==
    IF cmode = CtrModeSet THEN "set"
    ELSE IF cmode = CtrModeCount THEN "count"
    ELSE IF cmode = CtrModeAtomic THEN "atomic"
    ELSE IF cmode = CtrModeRegOnly THEN "regonly"
    ELSE IF cmode = CtrModeTestMain THEN "testmain"
    ELSE "<invalid>"

\* int(x) of a uint32
ToInt(x) == x[1] * 65536 + x[2]

ProfileBlock(u) ==
    [StartLine |-> u.StLine, StartCol |-> u.StCol, EndLine |-> u.EnLine,
     EndCol |-> u.EnCol, NumStmt |-> u.NxStmts, Count |-> ToInt(u.Count)]

\* the places of the model that hold a function
Places(podData) ==
    UNION {UNION {{[pod |-> h, pkg |-> pk, fn |-> f] :
                      f \in DOMAIN podData[h].Packages[pk].Funcs} :
                  pk \in DOMAIN podData[h].Packages} :
           h \in DOMAIN podData}

\* the orders in which the loops can meet the functions
Walks(podData) ==
    LET S == Places(podData)
        n == Cardinality(S)
    IN  {w \in [1..n -> S] : \A i, j \in 1..n : w[i] = w[j] => i = j}

\* the loop body for every function of the walk: the profile of a new file
\* is entered in the map; profile is the copy of the entry the blocks are
\* appended to, and the map keeps its entry
RECURSIVE FileProfiles(_, _, _)
FileProfiles(fileProfiles, podData, walk) ==
    IF walk = <<>> THEN fileProfiles
    ELSE LET pod == podData[Head(walk).pod]
             fn == pod.Packages[Head(walk).pkg].Funcs[Head(walk).fn]
             entered ==
                 IF fn.SrcFile \in DOMAIN fileProfiles THEN fileProfiles
                 ELSE MapPut(fileProfiles, fn.SrcFile,
                             [FileName |-> fn.SrcFile,
                              Mode |-> ModeString(pod.CounterMode),
                              Blocks |-> <<>>])
             profile ==
                 [entered[fn.SrcFile] EXCEPT
                     !.Blocks = @ \o [k \in 1..Len(fn.Units) |-> ProfileBlock(fn.Units[k])]]
         IN  FileProfiles(entered, podData, Tail(walk))

\* the slice out, filled from the map in the order files
GetProfiles(podData, walk, files) ==
    LET fileProfiles == FileProfiles(<<>>, podData, walk)
    IN  [i \in 1..Len(files) |-> fileProfiles[files[i]]]

(***************************************************************************)
(* SpecProfiles: GetProfiles on models of one pod of one package with one  *)
(* or two functions of up to MaxBlocks units each, in the files a.go and   *)
(* b.go.                                                                   *)
(***************************************************************************)
MaxBlocks == 2

ProfileUnits == {FuncUnit(Unit(1), Zero32), FuncUnit(Unit(2), One32)}

ProfileFuncs ==
    {[Name |-> "f", SrcFile |-> file, Units |-> units] :
        file \in {"a.go", "b.go"}, units \in VecsOf(ProfileUnits, MaxBlocks)}

ProfileDatas ==
    {EncodeToString(Hash1) :>
        [CounterGranularity |-> CtrGranularityPerBlock, CounterMode |-> mode,
         Packages |-> (0 :> [ID |-> 0, Name |-> "a", ImportPath |-> <<"a">>,
                             ModulePath |-> "m", NumFuncs |-> 2, Funcs |-> funcs])] :
        mode \in {CtrModeSet, CtrModeCount},
        funcs \in [{0} -> ProfileFuncs] \cup [{0, 1} -> ProfileFuncs]}

\* the file names of the functions of the model
SrcFiles(podData) ==
    {podData[pl.pod].Packages[pl.pkg].Funcs[pl.fn].SrcFile : pl \in Places(podData)}

InitProfiles ==
    /\ gpData \in ProfileDatas
    /\ gpOut = <<>>
    /\ MergerIdle
    /\ VisitIdle
    /\ PodsIdle
    /\ MatchIdle
    /\ IngestIdle
    /\ DiffIdle
    /\ MergingIdle
    /\ ReadFuncIdle
    /\ PayloadIdle
    /\ HeaderIdle
    /\ ViewIdle
    /\ BufferIdle
    /\ SetIdle

GetProfilesCall ==
    /\ gpOut = <<>>
    /\ \E walk \in Walks(gpData) :
          \E files \in {s \in [1..Cardinality(SrcFiles(gpData)) -> SrcFiles(gpData)] :
                            \A i, j \in DOMAIN s : s[i] = s[j] => i = j} :
             gpOut' = <<GetProfiles(gpData, walk, files)>>
    /\ UNCHANGED gpData
    /\ UNCHANGED outsideProfiles

NextProfiles == GetProfilesCall

SpecProfiles == InitProfiles /\ [][NextProfiles]_vars

(***************************************************************************)
(* Strings of a slice reader.                                              *)
(***************************************************************************)
\* toString: a string on the bytes themselves
toString(off, len) ==
    IF len = 0 THEN [view |-> FALSE, off |-> 0, len |-> 0, bytes |-> <<>>]
    ELSE [view |-> TRUE, off |-> off, len |-> len, bytes |-> <<>>]

\* reader.ReadString at cursor off of the bytes b
ReadString(b, off, len, readonly) ==
    IF readonly THEN toString(off, len)
    ELSE [view |-> FALSE, off |-> 0, len |-> len, bytes |-> SubSeq(b, off + 1, off + len)]

\* the bytes of the string s while the buffer holds b
StringBytes(s, b) ==
    IF s.view THEN SubSeq(b, s.off + 1, s.off + s.len) ELSE s.bytes

\* the loop of SReader.Read from cursor off for n entries: a length below
\* 128 in one byte, then the string
RECURSIVE ReadEntries(_, _, _, _)
ReadEntries(b, off, n, readonly) ==
    IF n = 0 THEN <<>>
    ELSE LET slen == b[off + 1]
         IN  <<ReadString(b, off + 1, slen, readonly)>>
             \o ReadEntries(b, off + 1 + slen, n - 1, readonly)

\* SReader.Read: the number of entries, then the entries
SReaderRead(b, readonly) == ReadEntries(b, 1, b[1], readonly)

\* the names the visitor stores in the model for a package whose header
\* names entries 0, 1 and 2 and whose one function names entries 3 and 4
DecodedNames(strs) ==
    [Name |-> Get(strs, 0).s, ImportPath |-> Get(strs, 1).s,
     ModulePath |-> Get(strs, 2).s, FuncName |-> Get(strs, 3).s,
     SrcFile |-> Get(strs, 4).s]

\* visitSinglePod: the bytes of the caller's buffer are the file view of the
\* meta-file reader, and GetPackageDecoder makes the decoder read-only when
\* the reader has a file view
visitSinglePod(meta) ==
    LET fileViewIsNil == FALSE
        readonly == ~fileViewIsNil
    IN  DecodedNames(SReaderRead(meta, readonly))

(***************************************************************************)
(* SpecBuffer: ReadFromBuffer on a meta buffer whose package has five      *)
(* strings, and up to MaxWrites writes of the caller to the buffer         *)
(* afterwards.                                                             *)
(***************************************************************************)
MaxWrites == 2

\* "a" and "bc"
BufferStrings == {<<97>>, <<98, 99>>}

\* the bytes the caller writes: "x"
WrittenBytes == {120}

RECURSIVE EncodeEntries(_)
EncodeEntries(strs) ==
    IF strs = <<>> THEN <<>>
    ELSE <<Len(Head(strs))>> \o Head(strs) \o EncodeEntries(Tail(strs))

MetaBuffers == {<<5>> \o EncodeEntries(strs) : strs \in [1..5 -> BufferStrings]}

NameFields == {"Name", "ImportPath", "ModulePath", "FuncName", "SrcFile"}

InitBuffer ==
    /\ bfMeta \in MetaBuffers
    /\ bfData = <<>>
    /\ bfNames = <<>>
    /\ bfWrites = 0
    /\ MergerIdle
    /\ VisitIdle
    /\ PodsIdle
    /\ MatchIdle
    /\ IngestIdle
    /\ DiffIdle
    /\ MergingIdle
    /\ ReadFuncIdle
    /\ PayloadIdle
    /\ HeaderIdle
    /\ ViewIdle
    /\ ProfilesIdle
    /\ SetIdle

ReadFromBuffer ==
    /\ bfData = <<>>
    /\ LET data == visitSinglePod(bfMeta)
       IN  /\ bfData' = <<data>>
           /\ bfNames' = <<[f \in NameFields |-> StringBytes(data[f], bfMeta)]>>
    /\ UNCHANGED <<bfMeta, bfWrites>>
    /\ UNCHANGED outsideBuffer

\* the caller overwrites a byte of its buffer
Overwrite ==
    /\ bfData # <<>>
    /\ bfWrites < MaxWrites
    /\ \E at \in DOMAIN bfMeta, byte \in WrittenBytes :
          /\ bfMeta[at] # byte
          /\ bfMeta' = [bfMeta EXCEPT ![at] = byte]
    /\ bfWrites' = bfWrites + 1
    /\ UNCHANGED <<bfData, bfNames>>
    /\ UNCHANGED outsideBuffer

NextBuffer == ReadFromBuffer \/ Overwrite

SpecBuffer == InitBuffer /\ [][NextBuffer]_vars

(***************************************************************************)
(* SpecMerging: a receiver and the arguments of its Merge calls, each a    *)
(* CoverageData of its own objects over one pod hash, one package and one  *)
(* function.                                                               *)
(***************************************************************************)
\* Merge calls
MaxMerged == 2

\* the counts of a pod of the mode
MergeCountsOf(mode) ==
    IF mode = CtrModeSet THEN <<Zero32, One32>> ELSE <<One32, MaxUint32>>

\* what a CoverageData holds: nothing (level 0), the pod without packages
\* (1), the pod and the package without functions (2), or the function too
\* (3) with units on line 1, on line 2 or on both
MergeShapes(mode) ==
    LET c == MergeCountsOf(mode)
    IN  {[level |-> l, units |-> <<>>] : l \in 0..2}
          \cup {[level |-> 3, units |-> u] :
                   u \in {<<FuncUnit(Unit(1), c[1])>>, <<FuncUnit(Unit(1), c[2])>>,
                          <<FuncUnit(Unit(2), c[2])>>,
                          <<FuncUnit(Unit(1), c[1]), FuncUnit(Unit(2), c[2])>>,
                          <<FuncUnit(Unit(1), c[2]), FuncUnit(Unit(2), c[1])>>}}

\* the orders in which a unitMap over the two keys may be ranged over
MergeOrders ==
    {<<funit(Unit(1)), funit(Unit(2))>>, <<funit(Unit(2)), funit(Unit(1))>>}

\* the heap with the objects of a new CoverageData at address k
Allocate(h, k, mode, shape) ==
    [pods |-> IF shape.level >= 1
              THEN MapPut(h.pods, k,
                          [CounterGranularity |-> CtrGranularityPerBlock,
                           CounterMode |-> mode,
                           Packages |-> IF shape.level >= 2 THEN (0 :> k) ELSE <<>>])
              ELSE h.pods,
     pkgs |-> IF shape.level >= 2
              THEN MapPut(h.pkgs, k,
                          [ID |-> 0, Name |-> "a", ImportPath |-> <<"a">>,
                           ModulePath |-> "m", NumFuncs |-> 1,
                           Funcs |-> IF shape.level >= 3 THEN (0 :> k) ELSE <<>>])
              ELSE h.pkgs,
     funcs |-> IF shape.level >= 3
               THEN MapPut(h.funcs, k,
                           [Name |-> "f", SrcFile |-> "a.go", Units |-> shape.units])
               ELSE h.funcs]

\* the new CoverageData itself
NewCoverage(k, shape) ==
    [PodData |-> IF shape.level >= 1 THEN (EncodeToString(Hash1) :> k) ELSE <<>>]

\* the mode of the pods of this run
ModeOfRun == IF heap.pods = <<>> THEN CtrModeInvalid
             ELSE heap.pods[CHOOSE a \in DOMAIN heap.pods : TRUE].CounterMode

InitMerging ==
    /\ MergerIdle
    /\ VisitIdle
    /\ PodsIdle
    /\ MatchIdle
    /\ IngestIdle
    /\ DiffIdle
    /\ \E mode \in {CtrModeSet, CtrModeCount} :
          \E shape \in MergeShapes(mode) :
             /\ heap = Allocate(NoHeap, 1, mode, shape)
             /\ covs = <<NewCoverage(1, shape)>>
    /\ passed = <<>>
    /\ lastMerge = NoMerge
    /\ ncalls = 0
    /\ ReadFuncIdle
    /\ PayloadIdle
    /\ HeaderIdle
    /\ ViewIdle
    /\ ProfilesIdle
    /\ BufferIdle
    /\ SetIdle

\* covs[1].Merge(other) on the heap h, the unitMaps ranged over in order ord
MergeCall(h, k, other, ord) ==
    LET r == Merge(h, covs[1], other, ord)
    IN  /\ heap' = r.h
        /\ covs' = [IF k > Len(covs) THEN Append(covs, other) ELSE covs
                      EXCEPT ![1] = r.cur]
        /\ passed' = IF k \in DOMAIN passed THEN passed
                      ELSE MapPut(passed, k, Deref(h, other))
        /\ lastMerge' = [op |-> "Merge", h |-> h, cur |-> covs[1], other |-> other,
                         ord |-> ord]
        /\ ncalls' = ncalls + 1
        /\ UNCHANGED outsideMerging

\* Merge with a CoverageData built for the call
MergeFresh ==
    /\ ncalls < MaxMerged
    /\ \E mode \in {CtrModeSet, CtrModeCount} :
          /\ ModeOfRun \in {CtrModeInvalid, mode}
          /\ \E shape \in MergeShapes(mode), ord \in MergeOrders :
                LET k == Len(covs) + 1
                IN  MergeCall(Allocate(heap, k, mode, shape), k,
                              NewCoverage(k, shape), ord)

\* Merge with an argument passed before
MergeAgain ==
    /\ ncalls < MaxMerged
    /\ \E k \in 2..Len(covs), ord \in MergeOrders :
          MergeCall(heap, k, covs[k], ord)

NextMerging == MergeFresh \/ MergeAgain

SpecMerging == InitMerging /\ [][NextMerging]_vars

(***************************************************************************)
(* SpecSet: a set-mode pod of one package with one function of two units   *)
(* is read up to MaxModels times, each time with up to MaxSetRecs counter  *)
(* records of the function, and the models read are merged into each other *)
(* up to MaxSetMerges times.                                               *)
(***************************************************************************)
MaxModels == 2

MaxSetRecs == 2

MaxSetMerges == 1

\* package a with the one function f of two units
PayloadF ==
    [Length |-> 74, PkgName |-> "a", PkgPath |-> <<"a">>, ModulePath |-> "m",
     NumFuncs |-> 1, FuncOffsets |-> <<60>>,
     Funcs |-> (60 :> FuncTwoUnits), Strs |-> StringTable]

\* the visitor after BeginPod and VisitMetaDataFile of the meta file
StartSetVisitor ==
    VisitMetaDataFile(BeginPod(NewVisitor),
                      MetaFile(Hash1, CtrModeSet, CtrGranularityPerBlock, <<PayloadF>>,
                               128, 0, TRUE)).d

\* the counters of the records: of both units or of the first alone
SetCounters ==
    {<<Zero32, Zero32>>, <<One32, Zero32>>, <<Zero32, MaxUint32>>,
     <<U32(0, 5), One32>>, <<MaxUint32>>}

\* the objects of the model data, of one package with one function, put on
\* the heap at address k
Store(h, k, pod) ==
    [pods |-> MapPut(h.pods, k,
                     [pod EXCEPT !.Packages = [pk \in DOMAIN pod.Packages |-> k]]),
     pkgs |-> MapPut(h.pkgs, k,
                     [pod.Packages[0] EXCEPT
                         !.Funcs = [f \in DOMAIN pod.Packages[0].Funcs |-> k]]),
     funcs |-> MapPut(h.funcs, k, pod.Packages[0].Funcs[0])]

\* processPackage on the one package: BeginPackage, then ReadFunc and
\* VisitFunc of its function
ProcessPackage(d) ==
    VisitFunc(BeginPackage(d, PayloadF, 0), 0, 0, ReadFunc(PayloadF, 0).fd)

InitSet ==
    /\ stVis = StartSetVisitor
    /\ stRecs = 0
    /\ stDead = FALSE
    /\ stAbove = FALSE
    /\ stSeen = {}
    /\ heap = NoHeap
    /\ covs = <<>>
    /\ passed = <<>>
    /\ lastMerge = NoMerge
    /\ ncalls = 0
    /\ MergerIdle
    /\ VisitIdle
    /\ PodsIdle
    /\ MatchIdle
    /\ IngestIdle
    /\ DiffIdle
    /\ ReadFuncIdle
    /\ PayloadIdle
    /\ HeaderIdle
    /\ ViewIdle
    /\ ProfilesIdle
    /\ BufferIdle

\* a counter record of the function is handed to the visitor; an error ends
\* the read without a model, and the pod is read anew
IngestSet ==
    /\ ~stDead
    /\ Len(covs) < MaxModels
    /\ stRecs < MaxSetRecs
    /\ \E counters \in SetCounters :
          LET r == VisitFuncCounterData(stVis, FuncPayload(0, 0, counters))
              above == \E i \in DOMAIN counters : counters[i] \notin {Zero32, One32}
          IN  IF r.err
              THEN /\ stVis' = StartSetVisitor
                   /\ stRecs' = 0
                   /\ stAbove' = FALSE
              ELSE /\ stVis' = r.d
                   /\ stRecs' = stRecs + 1
                   /\ stAbove' = (stAbove \/ above)
    /\ UNCHANGED <<stDead, stSeen>>
    /\ UNCHANGED mergingVars
    /\ UNCHANGED outsideSetMerging

\* the counter files are through: the package is processed and the model
\* returned, or VisitFunc panics
FinishRead ==
    /\ ~stDead
    /\ Len(covs) < MaxModels
    /\ LET r == ProcessPackage(stVis)
           k == Len(covs) + 1
       IN  IF r.res = "ok"
           THEN /\ heap' = Store(heap, k, r.d.data[EncodeToString(Hash1)])
                /\ covs' = Append(covs, [PodData |-> (EncodeToString(Hash1) :> k)])
                /\ stVis' = StartSetVisitor
                /\ stSeen' = IF stAbove THEN stSeen \cup {"above"} ELSE stSeen
                /\ UNCHANGED stDead
           ELSE /\ stDead' = TRUE
                /\ stVis' = r.d
                /\ UNCHANGED <<heap, covs, stSeen>>
    /\ stRecs' = 0
    /\ stAbove' = FALSE
    /\ UNCHANGED <<passed, lastMerge, ncalls>>
    /\ UNCHANGED outsideSetMerging

\* the units of the function of the model covs[k]
SetUnits(k) == heap.funcs[heap.pkgs[heap.pods[covs[k].PodData[EncodeToString(Hash1)]].Packages[0]].Funcs[0]].Units

\* covs[i].Merge(covs[j])
MergeModels ==
    /\ ~stDead
    /\ ncalls < MaxSetMerges
    /\ \E i \in DOMAIN covs, j \in DOMAIN covs, ord \in MergeOrders :
          LET r == Merge(heap, covs[i], covs[j], ord)
              both == \E a \in DOMAIN SetUnits(i), b \in DOMAIN SetUnits(j) :
                         /\ funit(SetUnits(i)[a]) = funit(SetUnits(j)[b])
                         /\ SetUnits(i)[a].Count = One32
                         /\ SetUnits(j)[b].Count = One32
          IN  /\ heap' = r.h
              /\ covs' = [covs EXCEPT ![i] = r.cur]
              /\ lastMerge' = [op |-> "Merge", h |-> heap, cur |-> covs[i],
                               other |-> covs[j], ord |-> ord]
              /\ stSeen' = IF both THEN stSeen \cup {"both"} ELSE stSeen
    /\ ncalls' = ncalls + 1
    /\ UNCHANGED <<stVis, stRecs, stDead, stAbove, passed>>
    /\ UNCHANGED outsideSetMerging

NextSet == IngestSet \/ FinishRead \/ MergeModels

SpecSet == InitSet /\ [][NextSet]_vars

(***************************************************************************)
(* Arithmetic on uint32 used to state the properties: order, difference    *)
(* and the room left below 2^32 - 1.                                       *)
(***************************************************************************)
Less32(a, b) == a[1] < b[1] \/ (a[1] = b[1] /\ a[2] < b[2])

\* (2^32 - 1) - a
Headroom32(a) == U32(LimbMax - a[1], LimbMax - a[2])

\* a + b > 2^32 - 1
Exceeds32(a, b) == Less32(Headroom32(a), b)

\* x - y, for y <= x
Diff32(x, y) ==
    IF x[2] >= y[2] THEN U32(x[1] - y[1], x[2] - y[2])
    ELSE U32(x[1] - y[1] - 1, x[2] + LimbBase - y[2])

\* r = min(a + b, 2^32 - 1)
IsMinSum(r, a, b) ==
    IF Exceeds32(a, b) THEN r = MaxUint32
    ELSE ~Less32(r, a) /\ Diff32(r, a) = b

MergeReturned == ret.op = "MergeCounters"

MergeSucceeded == MergeReturned /\ ~ret.err

\* some index of the last MergeCounters call saturated
SomeIndexSaturated ==
    /\ MergeSucceeded
    /\ ret.pre.cmode # CtrModeSet
    /\ \E i \in 1..Len(ret.d) : Exceeds32(ret.d[i], ret.s[i])

(***************************************************************************)
(* C1.  In count or atomic mode a successful MergeCounters(dst, src)       *)
(* leaves dst[i] = min(old dst[i] + src[i], 2^32 - 1) at every index; an   *)
(* old value of 2^32 - 1 stays 2^32 - 1 whatever is added, and overflow is *)
(* reported exactly when some index exceeded 2^32 - 1 (for an old value of *)
(* 2^32 - 1: exactly when the added value is not 0).                       *)
(***************************************************************************)
C1_CountMergeSaturates ==
    (MergeSucceeded /\ ret.pre.cmode \in {CtrModeCount, CtrModeAtomic}) =>
        /\ Len(dst) = Len(ret.d)
        /\ \A i \in 1..Len(dst) :
              /\ IsMinSum(dst[i], ret.d[i], ret.s[i])
              /\ ret.d[i] = MaxUint32 => dst[i] = MaxUint32
              /\ (ret.d[i] = MaxUint32 /\ ret.s[i] # Zero32) => ret.ovf
        /\ ret.ovf <=> \E i \in 1..Len(dst) : Exceeds32(ret.d[i], ret.s[i])

C1_Witness ==
    /\ MergeSucceeded
    /\ ret.pre.cmode = CtrModeAtomic
    /\ Len(dst) = 2
    /\ ret.d[1] = MaxUint32 /\ ret.s[1] = U32(0, 2) /\ dst[1] = MaxUint32
    /\ ret.d[2] = U32(LimbMax, LimbMax - 2) /\ ret.s[2] = U32(0, 2) /\ dst[2] = MaxUint32
    /\ ret.ovf

(***************************************************************************)
(* C2 as stated.  In set mode a successful MergeCounters leaves            *)
(* dst[i] = old dst[i] OR (1 if src[i] != 0 else 0), for every uint32      *)
(* value of old dst[i].                                                    *)
(***************************************************************************)
C2_SetModeIsBitwiseOr ==
    (MergeSucceeded /\ ret.pre.cmode = CtrModeSet) =>
        \A i \in 1..Len(ret.d) :
            dst[i] = IF ret.s[i] # Zero32 THEN Or1(ret.d[i]) ELSE ret.d[i]

(***************************************************************************)
(* C2 amended.  In set mode a successful MergeCounters leaves dst[i] = 1   *)
(* where src[i] != 0 and dst[i] unchanged where src[i] = 0, for every      *)
(* uint32 value of old dst[i]; that is the bitwise OR when old dst[i] is   *)
(* 0 or 1.                                                                 *)
(***************************************************************************)
C2_SetModeStoresOne ==
    (MergeSucceeded /\ ret.pre.cmode = CtrModeSet) =>
        /\ Len(dst) = Len(ret.d)
        /\ \A i \in 1..Len(ret.d) :
              /\ ret.s[i] # Zero32 => dst[i] = One32
              /\ ret.s[i] = Zero32 => dst[i] = ret.d[i]
              /\ ret.d[i] \in {Zero32, One32} =>
                    dst[i] = IF ret.s[i] # Zero32 THEN Or1(ret.d[i]) ELSE ret.d[i]

C2_Witness ==
    /\ MergeSucceeded
    /\ ret.pre.cmode = CtrModeSet
    /\ Len(dst) = 2
    /\ ret.d[1] = U32(0, 2) /\ ret.s[1] = MaxUint32 /\ dst[1] = One32
    /\ ret.d[2] = MaxUint32 /\ ret.s[2] = Zero32 /\ dst[2] = MaxUint32

(***************************************************************************)
(* C3 as stated.  The overflow value a MergeCounters call returns is true  *)
(* iff some index saturated during that call, and the merger's overflow    *)
(* flag is false when the call returns.                                    *)
(***************************************************************************)
C3_OverflowIsPerCall ==
    MergeReturned => (ret.ovf <=> SomeIndexSaturated) /\ ~cm.overflow

(***************************************************************************)
(* C3 amended.  A successful MergeCounters call returns overflow = true    *)
(* iff some index saturated during the call or the flag was already set    *)
(* when the call began, and leaves the flag false; a failing call returns  *)
(* false and leaves the flag as it was; only SaturatingAdd raises the flag *)
(* outside MergeCounters.                                                  *)
(***************************************************************************)
C3_OverflowIsSticky ==
    /\ MergeSucceeded => (ret.ovf <=> (ret.pre.overflow \/ SomeIndexSaturated))
    /\ MergeSucceeded => ~cm.overflow
    /\ (MergeReturned /\ ret.err) => (~ret.ovf /\ cm.overflow = ret.pre.overflow)
    /\ (cm.overflow /\ ~ret.pre.overflow) => ret.op = "SaturatingAdd"

C3_Witness ==
    /\ MergeSucceeded
    /\ ret.pre.cmode = CtrModeSet
    /\ ret.pre.overflow
    /\ Len(ret.d) = 1
    /\ ret.ovf
    /\ ~cm.overflow

(***************************************************************************)
(* C4.  MergeCounters(dst, src) with len(dst) != len(src) returns an error *)
(* in every mode and leaves dst, the recorded mode and the granularity     *)
(* unchanged.                                                              *)
(***************************************************************************)
C4_LengthMismatchFails ==
    (MergeReturned /\ Len(ret.d) # Len(ret.s)) =>
        /\ ret.err
        /\ dst = ret.d
        /\ cm.cmode = ret.pre.cmode
        /\ cm.cgran = ret.pre.cgran

C4_Witness ==
    /\ MergeReturned
    /\ Len(ret.d) = 2 /\ Len(ret.s) = 1
    /\ ret.s[1] # Zero32
    /\ ret.pre.cmode = CtrModeSet
    /\ ret.err
    /\ dst = ret.d

\* The merger holds a mode recorded by an earlier call: one other than the
\* invalid mode of a new merger.
ModeWasRecorded == ret.pre.cmode # CtrModeInvalid

\* The merger holds a granularity recorded by an earlier call: one other than
\* the invalid granularity of a new merger, or the one stored with a mode.
GranularityWasRecorded == ret.pre.cgran # CtrGranularityInvalid \/ ModeWasRecorded

(***************************************************************************)
(* C5.  A SetModeAndGranularity call fails iff a mode or a granularity     *)
(* recorded by an earlier call differs from the one supplied, each         *)
(* compared whatever the value of the other, and a failing call leaves the *)
(* recorded mode and granularity unchanged.                                *)
(***************************************************************************)
C5_ClashIffDiffers ==
    ret.op = "SetModeAndGranularity" =>
        /\ ret.err <=> \/ ModeWasRecorded /\ ret.pre.cmode # ret.cmode
                       \/ GranularityWasRecorded /\ ret.pre.cgran # ret.cgran
        /\ ret.err => (cm.cmode = ret.pre.cmode /\ cm.cgran = ret.pre.cgran)

(***************************************************************************)
(* Properties of ReadDir.                                                  *)
(***************************************************************************)
\* the package indices of the meta file of the pod
PackageIndices == 0..(mfr.Entries - 1)

\* the record of package p in the pod under visit
PackageOf(p) == vis.data[vis.podHash].Packages[p]

\* visitPod has returned nil on the pod of mfr
PodVisited ==
    /\ npod > 0
    /\ pc \in {"pods", "done"}
    /\ outcome \in {"none", "ok"}

\* the last visitor call was VisitMetaDataFile, on a meta file whose mode or
\* granularity differs from the one an earlier meta file of the visit declared
MetaClashed ==
    /\ last.op = "VisitMetaDataFile"
    /\ last.pre.cm.cmode # CtrModeInvalid
    /\ (mfr.CMode # last.pre.cm.cmode \/ mfr.CGranularity # last.pre.cm.cgran)

\* C6: when a later meta file of the visit declares another mode or
\* granularity than the first, VisitMetaDataFile returns an error, the pods
\* of the model are those populated before the call, and ReadDir hands
\* those pods to the caller.
C6_ClashLeavesPodsIntact ==
    MetaClashed =>
        /\ last.res = "err"
        /\ vis.data = last.pre.data
        /\ (pc = "done" => ~ReadDir.nil /\ ReadDir.data = last.pre.data)

\* the last visitor call was VisitFuncCounterData on a record whose package
\* is not in the meta file or whose function index is not below numFuncs
RecordOutsideCatalog ==
    /\ last.op = "VisitFuncCounterData"
    /\ \/ last.data.PkgIdx \notin PackageIndices
       \/ last.data.FuncIdx >= mfr.pkgs[last.data.PkgIdx + 1].NumFuncs

\* C7: a counter record outside the catalog of the meta file (funcIdx =
\* numFuncs included) is dropped: VisitFuncCounterData returns no error and
\* leaves the accumulators and the model as they were.
C7_OutsideRecordsDropped ==
    RecordOutsideCatalog =>
        /\ last.res = "ok"
        /\ vis.mm = last.pre.mm
        /\ vis.data = last.pre.data

\* the counter file being read carries another meta hash than the meta file
CounterHashDiffers ==
    /\ cdr # NoCounterFile
    /\ cdr.MetaHash # mfr.MetaFileHash

\* C8: a counter file whose header meta hash differs from the meta hash of
\* the pod's meta file is rejected with an error and none of its records
\* is merged into the accumulators.
C8_ForeignCounterFileRejected ==
    CounterHashDiffers =>
        /\ (pc = "done" => outcome = "err")
        /\ (pc = "records" /\ cdr.nfuncs > 0 => vis.mm = last.pre.mm)

\* C9: BeginPackage is called for every package of the meta file, matched
\* or not, and before any VisitFunc of the package, so that after a
\* successful pod visit every Package record carries the name, import path
\* and module path of its payload.
C9_EveryPackageBegun ==
    /\ pc \in {"packages", "funcs"} =>
          \A p \in PackageIndices : PackageOf(p).Funcs # <<>> => p \in begun
    /\ PodVisited =>
          \A p \in PackageIndices :
             /\ p \in begun
             /\ PackageOf(p).Name = mfr.pkgs[p + 1].PkgName
             /\ PackageOf(p).ImportPath = mfr.pkgs[p + 1].PkgPath
             /\ PackageOf(p).ModulePath = mfr.pkgs[p + 1].ModulePath

\* some pattern matches the import path of package p, or there is no pattern
PackageMatched(p) ==
    \/ pkgs = <<>>
    \/ \E k \in 1..Len(pkgs) : MatchSimplePattern(pkgs[k], mfr.pkgs[p + 1].PkgPath)

\* C10: after a successful pod visit the funcs map of a package holds the
\* function indices 0..numFuncs-1 exactly when the package is matched, and
\* is empty for every other package.
C10_FuncsOfMatchedPackages ==
    PodVisited =>
        \A p \in PackageIndices :
           /\ (DOMAIN PackageOf(p).Funcs = 0..(mfr.pkgs[p + 1].NumFuncs - 1))
                 <=> PackageMatched(p)
           /\ ~PackageMatched(p) => PackageOf(p).Funcs = <<>>

\* C11: when VisitFunc runs on a function that has an accumulator, it
\* completes, the accumulator is as long as the function has units and unit
\* i receives the count accumulator[i]; when the function has no
\* accumulator every unit receives the count 0.
C11_CountsZippedOntoUnits ==
    last.op = "VisitFunc" =>
        LET pk == last.data.PkgIdx
            fn == last.data.FuncIdx
            fd == ReadFunc(mfr.pkgs[pk + 1], fn).fd
            key == <<pk, fn>>
            units == PackageOf(pk).Funcs[fn].Units
        IN  /\ last.res = "ok"
            /\ IF key \in DOMAIN last.pre.mm
               THEN /\ Len(last.pre.mm[key]) = Len(fd.Units)
                    /\ \A i \in 1..Len(fd.Units) : units[i].Count = last.pre.mm[key][i]
               ELSE \A i \in 1..Len(fd.Units) : units[i].Count = Zero32

\* C12: when a step of a pod visit fails, Visit returns an error and
\* drives no later step.
C12_FailureEndsVisit == stepFailed => pc = "done" /\ outcome = "err"

(***************************************************************************)
(* Properties of collectPodsImpl.                                          *)
(***************************************************************************)
\* the positions of the list holding a meta file of the tag
MetaPositions(tag) ==
    {i \in 1..Len(inFiles) : MetaTag(Base(inFiles[i])) = tag}

\* the tags of the meta files of the list
InputMetaTags ==
    {MetaTag(Base(inFiles[i])) : i \in 1..Len(inFiles)} \ {NoMatch}

\* the positions of the pod list holding the pod of the tag
PodsOfTag(tag) ==
    {k \in 1..Len(podlist) : MetaTag(Base(podlist[k].MetaFile)) = tag}

\* C13: the pod list holds exactly one pod per tag of the meta files of the
\* list, and the pod's MetaFile is the first path of the list with that tag.
C13_OnePodPerMetaTag ==
    collected =>
        /\ Len(podlist) = Cardinality(InputMetaTags)
        /\ \A tag \in InputMetaTags :
              /\ Cardinality(PodsOfTag(tag)) = 1
              /\ \A k \in PodsOfTag(tag) :
                    \E i \in MetaPositions(tag) :
                       /\ podlist[k].MetaFile = inFiles[i]
                       /\ \A j \in MetaPositions(tag) : i <= j

\* the list held two different meta paths of one tag
C13_Witness ==
    /\ collected
    /\ \E tag \in InputMetaTags :
          \E i, j \in MetaPositions(tag) : inFiles[i] # inFiles[j]

\* the pods whose CounterDataFiles hold the path
PodsHolding(f) ==
    {k \in 1..Len(podlist) :
        \E n \in 1..Len(podlist[k].CounterDataFiles) :
           podlist[k].CounterDataFiles[n] = f}

\* C14: a counter path whose tag is the tag of a meta file of the list is
\* in the CounterDataFiles of exactly one pod, the pod of that tag; a
\* counter path whose tag is no meta file's tag is in no pod; a list
\* without meta files gives the empty pod list.
C14_CountersFollowTheirTag ==
    collected =>
        /\ \A i \in 1..Len(inFiles) :
              LET tag == CounterTag(Base(inFiles[i]))
              IN  IF tag \in InputMetaTags
                  THEN PodsHolding(inFiles[i]) = PodsOfTag(tag)
                       /\ Cardinality(PodsOfTag(tag)) = 1
                  ELSE PodsHolding(inFiles[i]) = {}
        /\ InputMetaTags = {} => podlist = <<>>

\* the list held a counter path of a meta file's tag and a counter path of
\* another tag that no meta file has, next to the meta file
C14_Witness ==
    /\ collected
    /\ \E i, j \in 1..Len(inFiles) :
          /\ CounterTag(Base(inFiles[i])) \in InputMetaTags
          /\ CounterTag(Base(inFiles[j])) \notin InputMetaTags \cup {NoMatch}

\* s sorts before t as Go compares strings: at the first position where
\* they differ s has the smaller byte, or s is a proper prefix of t
Precedes(s, t) ==
    \/ Len(s) < Len(t) /\ SubSeq(t, 1, Len(s)) = s
    \/ \E k \in 1..Len(s) :
          /\ k <= Len(t)
          /\ SubSeq(s, 1, k - 1) = SubSeq(t, 1, k - 1)
          /\ ByteOf(s[k]) < ByteOf(t[k])

\* C15: the CounterDataFiles of every pod ascend in the order of strings
\* and the pods ascend by MetaFile, whatever the order of the list.
C15_PodsAndCountersSorted ==
    collected =>
        /\ \A k \in 1..Len(podlist) :
              LET cdf == podlist[k].CounterDataFiles
              IN  \A n \in 1..(Len(cdf) - 1) : ~Precedes(cdf[n + 1], cdf[n])
        /\ \A k \in 1..(Len(podlist) - 1) :
              Precedes(podlist[k].MetaFile, podlist[k + 1].MetaFile)

\* the list gave two meta files and two counter files of one of them, both
\* in descending order
C15_Witness ==
    /\ collected
    /\ \E i, j \in 1..Len(inFiles) :
          /\ i < j
          /\ InputMetaTags \cap {MetaTag(Base(inFiles[i]))} # {}
          /\ InputMetaTags \cap {MetaTag(Base(inFiles[j]))} # {}
          /\ Precedes(inFiles[j], inFiles[i])
    /\ \E i, j \in 1..Len(inFiles) :
          /\ i < j
          /\ CounterTag(Base(inFiles[i])) \in InputMetaTags
          /\ CounterTag(Base(inFiles[i])) = CounterTag(Base(inFiles[j]))
          /\ Precedes(inFiles[j], inFiles[i])

(***************************************************************************)
(* Properties of MatchSimplePattern.                                       *)
(***************************************************************************)
\* the text holds the wildcard
HasEllipsis(s) == \E i \in 1..Len(s) : HasPrefixAt(s, i, Ellipsis)

\* the pattern is P/... for a prefix P without wildcard
IsPrefixPattern ==
    /\ HasSuffix(pattern, <<"/">> \o Ellipsis)
    /\ ~HasEllipsis(TrimSuffix(pattern, <<"/">> \o Ellipsis))

\* C16: the pattern P/... of a prefix P without wildcard matches s exactly
\* when s is P or s starts with P/ .
C16_TrailingWildcardMatchesSubtree ==
    (matched # <<>> /\ IsPrefixPattern) =>
        LET P == TrimSuffix(pattern, <<"/">> \o Ellipsis)
        IN  matched[1] <=> (toMatch = P \/ HasPrefixAt(toMatch, 1, P \o <<"/">>))

IsSuffixPattern ==
    /\ HasPrefixAt(pattern, 1, Ellipsis \o <<"/">>)
    /\ ~HasEllipsis(SubSeq(pattern, 5, Len(pattern)))

SetMergedWithItself ==
    /\ ret.op = "MergeCounters"
    /\ ~ret.err
    /\ ret.pre.cmode = CtrModeSet
    /\ ret.d = ret.s

\* C18 as claimed: for every vector a, the set-mode merge of a into a
\* leaves a.
C18_SetMergeIdempotent == SetMergedWithItself => dst = ret.d

\* C18: the set-mode merge of a into a leaves 1 at every index where a is
\* not 0 and 0 elsewhere, hence leaves a when every entry of a is 0 or 1.
C18_SetMergeIdempotentOnFlags ==
    SetMergedWithItself =>
        /\ Len(dst) = Len(ret.d)
        /\ \A i \in 1..Len(ret.d) :
              dst[i] = IF ret.d[i] = Zero32 THEN Zero32 ELSE One32
        /\ (\A i \in 1..Len(ret.d) : ret.d[i] \in {Zero32, One32}) => dst = ret.d

\* a vector holding a 1 was merged into itself in set mode
C18_Witness ==
    /\ SetMergedWithItself
    /\ \E i \in 1..Len(ret.d) : ret.d[i] = One32

(***************************************************************************)
(* Order of ingestion.                                                     *)
(***************************************************************************)
\* the accumulator of function 0 of package 0, empty when there is none
Accumulator(d) == IF <<0, 0>> \in DOMAIN d.mm THEN d.mm[<<0, 0>>] ELSE <<>>

\* the outcome of a visit: an error, or the accumulated vector
OutcomeOf(d, err) == IF err THEN [err |-> TRUE, acc |-> <<>>]
                     ELSE [err |-> FALSE, acc |-> Accumulator(d)]

\* the outcome of handing the records to the visitor in the order given
RECURSIVE IngestAll(_, _)
IngestAll(d, records) ==
    IF records = <<>> THEN OutcomeOf(d, FALSE)
    ELSE LET r == VisitFuncCounterData(d, FuncPayload(0, 0, Head(records)))
         IN  IF r.err THEN OutcomeOf(d, TRUE) ELSE IngestAll(r.d, Tail(records))

Orders(n) ==
    {p \in [1..n -> 1..n] : \A i, j \in 1..n : p[i] = p[j] => i = j}

\* every record was handed over, or one was refused
IngestDone == ingestErr \/ ningested = Len(recs)

\* the vector without its trailing zeros
RECURSIVE TrimZeros(_)
TrimZeros(v) ==
    IF v # <<>> /\ v[Len(v)] = Zero32 THEN TrimZeros(SubSeq(v, 1, Len(v) - 1)) ELSE v

\* C19: the records of one function give the same outcome (the same
\* accumulated vector, or an error) in every order of ingestion, and an
\* all-zero record is accepted and leaves the counts of the accumulator as
\* they were (up to the zeros a longer record appends).
C19_IngestionOrderIrrelevant ==
    /\ IngestDone =>
          \A p \in Orders(Len(recs)) :
             IngestAll(StartVisitor(visitor.cm.cmode),
                       [i \in 1..Len(recs) |-> recs[p[i]]])
                = OutcomeOf(visitor, ingestErr)
    /\ (ningested > 0 /\ TrimZeros(recs[ningested]) = <<>>) =>
          /\ ~ingestErr
          /\ TrimZeros(Accumulator(visitor)) = TrimZeros(Accumulator(before))

(***************************************************************************)
(* Properties of DiffLines.                                                *)
(***************************************************************************)
\* the units of a CoverageData, each with its place
PlacedUnits(podData) ==
    UNION {UNION {UNION {{<<h, p, f, i>> :
                            i \in 1..Len(podData[h].Packages[p].Funcs[f].Units)}
                         : f \in DOMAIN podData[h].Packages[p].Funcs}
                  : p \in DOMAIN podData[h].Packages}
           : h \in DOMAIN podData}

UnitAt(podData, x) == podData[x[1]].Packages[x[2]].Funcs[x[3]].Units[x[4]]

\* the (stLine, enLine, stCol, enCol, nxStmts) tuples of a CoverageData
TuplesOf(podData) ==
    {LET u == UnitAt(podData, x)
     IN  <<u.StLine, u.EnLine, u.StCol, u.EnCol, u.NxStmts>> : x \in PlacedUnits(podData)}

\* the value DiffLines returned is the number of distinct tuples of covTwo
\* that covOne does not hold, and 0 when the two are the same
CountsNewTuples ==
    diffed # <<>> =>
        /\ diffed[1] = Cardinality(TuplesOf(covTwo) \ TuplesOf(covOne))
        /\ covOne = covTwo => diffed[1] = 0

MergePre == Deref(lastMerge.h, lastMerge.cur)

MergeArg == Deref(lastMerge.h, lastMerge.other)

MergePost == Deref(heap, covs[1])

\* the count of the unit of the key among the units, 0 when there is none
CountOfKey(units, uKey) ==
    IF \E i \in 1..Len(units) : funit(units[i]) = uKey
    THEN units[CHOOSE i \in 1..Len(units) : funit(units[i]) = uKey].Count
    ELSE Zero32

KeysOf(units) == {funit(units[i]) : i \in 1..Len(units)}

\* the units are one per key of either side, each with the merger's result
\* of the two counts
UnitsMerged(units, curUnits, otherUnits, mode, gran) ==
    /\ KeysOf(units) = KeysOf(curUnits) \cup KeysOf(otherUnits)
    /\ Len(units) = Cardinality(KeysOf(units))
    /\ \A i \in 1..Len(units) :
          units[i].Count =
             MergeCounters(SetModeAndGranularity(NewMerger, mode, gran).cm,
                           <<CountOfKey(curUnits, funit(units[i]))>>,
                           <<CountOfKey(otherUnits, funit(units[i]))>>).dst[1]

\* C21: after into.Merge(other) a function present on both sides holds one
\* unit per 5-tuple of either side, counted by the merger in the pod's mode
\* from the two counts (0 where the tuple is absent); pods, packages and
\* functions absent in into are those of other.
C21_MergeUnitesUnits ==
    lastMerge.op = "Merge" =>
        \A pName \in DOMAIN MergeArg :
            IF pName \notin DOMAIN MergePre
            THEN MergePost[pName] = MergeArg[pName]
            ELSE \A packName \in DOMAIN MergeArg[pName].Packages :
                    LET pre == MergePre[pName].Packages
                        arg == MergeArg[pName].Packages
                        post == MergePost[pName].Packages
                    IN  IF packName \notin DOMAIN pre
                        THEN post[packName] = arg[packName]
                        ELSE \A fName \in DOMAIN arg[packName].Funcs :
                                IF fName \notin DOMAIN pre[packName].Funcs
                                THEN post[packName].Funcs[fName]
                                        = arg[packName].Funcs[fName]
                                ELSE UnitsMerged(
                                        post[packName].Funcs[fName].Units,
                                        pre[packName].Funcs[fName].Units,
                                        arg[packName].Funcs[fName].Units,
                                        MergeArg[pName].CounterMode,
                                        MergeArg[pName].CounterGranularity)

\* the function was on both sides with one unit each, on different lines,
\* and holds both units now
C21_Witness ==
    /\ lastMerge.op = "Merge"
    /\ \E pName \in DOMAIN MergeArg \cap DOMAIN MergePre :
          \E packName \in DOMAIN MergeArg[pName].Packages
                             \cap DOMAIN MergePre[pName].Packages :
             \E fName \in DOMAIN MergeArg[pName].Packages[packName].Funcs
                              \cap DOMAIN MergePre[pName].Packages[packName].Funcs :
                /\ Len(MergePre[pName].Packages[packName].Funcs[fName].Units) = 1
                /\ Len(MergeArg[pName].Packages[packName].Funcs[fName].Units) = 1
                /\ Len(MergePost[pName].Packages[packName].Funcs[fName].Units) = 2

\* C27: every argument of a Merge call holds, after any later call, what it
\* held when it was passed in.
C27_MergeLeavesArgumentsAlone ==
    \A k \in DOMAIN passed : Deref(heap, covs[k]) = passed[k]

\* the units of the function of the pod, walked from the receiver after the
\* latest call
MergedPlaces ==
    {x \in PlacedUnits(MergePost) :
        /\ x[1] \in DOMAIN MergePre
        /\ x[2] \in DOMAIN MergePre[x[1]].Packages
        /\ x[3] \in DOMAIN MergePre[x[1]].Packages[x[2]].Funcs}

\* C28: Merge gives the same units at the same indices whatever the order
\* in which it ranges over its unitMap, and a unit the receiver had before
\* the call is at the index it had.
C28_MergeKeepsUnitIndices ==
    lastMerge.op = "Merge" =>
        /\ \A ord \in MergeOrders :
              LET r == Merge(lastMerge.h, lastMerge.cur, lastMerge.other, ord)
              IN  Deref(r.h, r.cur) = MergePost
        /\ \A x \in PlacedUnits(MergePre) :
              /\ x \in MergedPlaces
              /\ funit(UnitAt(MergePost, x)) = funit(UnitAt(MergePre, x))

\* ReadFunc reached the string table with fnameidx or fileidx out of range
ReadsName ==
    /\ rfOut # <<>>
    /\ rfIdx < rfPd.NumFuncs
    /\ rfPd.FuncOffsets[rfIdx + 1] >= CovMetaHeaderSize + 4 * rfIdx
    /\ rfPd.FuncOffsets[rfIdx + 1] <= rfPd.Length

IndexOutsideTable ==
    LET rec == rfPd.Funcs[rfPd.FuncOffsets[rfIdx + 1]]
    IN  rec.fnameidx >= Len(rfPd.Strs) \/ rec.fileidx >= Len(rfPd.Strs)

\* C22: whenever funcNameIdx or srcFileIdx of the function read is not below
\* the number of entries of the string table, ReadFunc returns an error and
\* does not crash.
C22_BadStringIndexIsError ==
    ReadsName /\ IndexOutsideTable => rfOut[1].err /\ ~rfOut[1].panic

\* the package asked for lies inside the file
InsideFile ==
    pfFile.pkgOffsets[pfIdx + 1] + pfFile.pkgLengths[pfIdx + 1] <= pfFile.size

\* C23: once the header has been accepted, asking for package i < numPackages
\* gives an error or the pkgLengths[i] bytes of the file at pkgOffsets[i]; a
\* package whose offset plus length exceeds the file gives an error.
C23_PayloadInsideFileOrError ==
    pfOut # <<>> /\ pfIdx < pfFile.Entries =>
        /\ \/ pfOut[1].res = "err"
           \/ /\ pfOut[1].res = "ok"
              /\ InsideFile
              /\ pfOut[1].pp = PayloadBytes(pfFile, pfIdx)
        /\ ~InsideFile => pfOut[1].res = "err"

\* C24: over a blob shorter than the header, every call of Read made by the
\* header read gets bytes or ends the read with an error; the read does not
\* go on asking a reader whose cursor is at the end of its buffer.
C24_HeaderReadProgressesOrFails ==
    [][hrBlob < CovMetaHeaderSize /\ hrCalls' > hrCalls
          => hrN' > hrN \/ hrPc' = "err"]_vars

\* C25: after every sequence of Seek and Read calls the reader with the file
\* view and the reader on the buffered stream have reported the same
\* position, delivered the same bytes and stand at the same place of the file
\* (so that Seek(offset, current) has moved both by offset).
C25_ViewAndStreamAgree ==
    /\ mOut.pos = sOut.pos
    /\ mOut.bytes = sOut.bytes
    /\ mOff = sPos - sBuf

\* the units of the functions of the file, as blocks, with the places they
\* come from
BlocksOfFile(file) ==
    {<<pl, k>> \in Places(gpData) \X (1..MaxBlocks + 1) :
        LET fn == gpData[pl.pod].Packages[pl.pkg].Funcs[pl.fn]
        IN  fn.SrcFile = file /\ k <= Len(fn.Units)}

BlockAt(place) ==
    ProfileBlock(gpData[place[1].pod].Packages[place[1].pkg].Funcs[place[1].fn].Units[place[2]])

\* the profile holds every block as often as the units of the file give it
SameBlocks(profile) ==
    /\ Len(profile.Blocks) = Cardinality(BlocksOfFile(profile.FileName))
    /\ \A place \in BlocksOfFile(profile.FileName) :
           Cardinality({i \in DOMAIN profile.Blocks : profile.Blocks[i] = BlockAt(place)})
           = Cardinality({q \in BlocksOfFile(profile.FileName) : BlockAt(q) = BlockAt(place)})

\* C26: GetProfiles returns exactly one profile for every distinct source
\* file of the functions of the model, and the blocks of a profile are one
\* for every unit of every function of that file, with the unit's lines,
\* columns, statement count and count.
C26_OneProfilePerFileWithItsBlocks ==
    gpOut # <<>> =>
        /\ {gpOut[1][i].FileName : i \in DOMAIN gpOut[1]} = SrcFiles(gpData)
        /\ Len(gpOut[1]) = Cardinality(SrcFiles(gpData))
        /\ \A i \in DOMAIN gpOut[1] : SameBlocks(gpOut[1][i])

\* C29: whatever the caller writes to the meta buffer after ReadFromBuffer
\* has returned, the package name, import path, module path, function name
\* and source-file name of the returned model are what they were on return.
C29_NamesDetachedFromBuffer ==
    bfData # <<>> =>
        \A f \in NameFields : StringBytes(bfData[1][f], bfMeta) = bfNames[1][f]

\* C30: in a set-mode pod the counts the visitor has accumulated from the
\* counter records and the unit counts of every model read, before and after
\* the Merge calls between these models, are 0 or 1.
C30_SetCountsZeroOrOne ==
    /\ \A key \in DOMAIN stVis.mm :
           \A i \in DOMAIN stVis.mm[key] : stVis.mm[key][i] \in {Zero32, One32}
    /\ \A a \in DOMAIN heap.funcs :
           \A i \in DOMAIN heap.funcs[a].Units :
              heap.funcs[a].Units[i].Count \in {Zero32, One32}

\* a model read from records that held counts above one has been merged
\* with a model counting one for the same unit
C30_Witness ==
    /\ stSeen = {"above", "both"}
    /\ ncalls > 0
    /\ Len(covs) > 1
    /\ \E a \in DOMAIN heap.funcs :
           \E i \in DOMAIN heap.funcs[a].Units : heap.funcs[a].Units[i].Count = One32

====
